---- MODULE Spec2Model ----
(***************************************************************************)
(* UDRAL plug-and-play proof of concept: the auto-configuration run        *)
(* (node_proxy.perform_automatic_port_id_allocation) and the supervisor    *)
(* that starts, cancels and sweeps the runs (udral_pnp.main), and the two  *)
(* port-name resolvers (service_detector, service_discoverer).             *)
(*                                                                         *)
(* Text is modelled as a sequence of one-character strings, so that the    *)
(* slicing, prefix and suffix tests and the cookie normalisation of the    *)
(* code are computed rather than assumed.                                  *)
(***************************************************************************)
EXTENDS Integers, Sequences, FiniteSets, TLC

(***************************************************************************)
(* Bounds of the model.                                                    *)
(***************************************************************************)
\* Runs (asyncio tasks) the supervisor may create in one behaviour.
MaxTasks == 2

\* Port names given to a resolver in one call, over the four kinds together.
MaxPorts == 3

\* Remote node identifiers seen by the node tracker.
Nodes == {1, 2}

(***************************************************************************)
(* Python text primitives.                                                 *)
(***************************************************************************)
\* r[a:b] of Python for 0 <= a, 0 <= b (0-based, b exclusive, clipped).
PySlice(r, a, b) ==
    LET hi == IF b > Len(r) THEN Len(r) ELSE b
    IN  IF a >= hi THEN <<>> ELSE [k \in 1..(hi - a) |-> r[a + k]]

\* r[a:-n] of Python for 0 <= a, n > 0.
PySliceFromEnd(r, a, n) ==
    PySlice(r, a, IF Len(r) - n < 0 THEN 0 ELSE Len(r) - n)

\* r.startswith(s)
StartsWith(r, s) == Len(r) >= Len(s) /\ PySlice(r, 0, Len(s)) = s

\* r.endswith(e)
EndsWith(r, e) == Len(r) >= Len(e) /\ PySlice(r, Len(r) - Len(e), Len(r)) = e

\* str.lower() on the characters the model uses.
LowerChar(c) ==
    CASE c = "A" -> "a"
      [] c = "B" -> "b"
      [] c = "R" -> "r"
      [] OTHER   -> c

Lower(s) == [k \in 1..Len(s) |-> LowerChar(s[k])]

IsSpace(c) == c = " "

\* str.strip(): drops leading and trailing whitespace.
RECURSIVE LStrip(_)
LStrip(s) == IF s # <<>> /\ IsSpace(Head(s)) THEN LStrip(Tail(s)) ELSE s

RECURSIVE RStrip(_)
RStrip(s) ==
    IF s # <<>> /\ IsSpace(s[Len(s)]) THEN RStrip(SubSeq(s, 1, Len(s) - 1)) ELSE s

Strip(s) == RStrip(LStrip(s))

(***************************************************************************)
(* Register names.                                                         *)
(***************************************************************************)
Kinds == <<"pub", "sub", "cln", "srv">>

KindText(kind) ==
    CASE kind = "pub" -> <<"p", "u", "b">>
      [] kind = "sub" -> <<"s", "u", "b">>
      [] kind = "cln" -> <<"c", "l", "n">>
      [] kind = "srv" -> <<"s", "r", "v">>

\* f"uavcan.{kind}."
PortPrefix(kind) == <<"u", "a", "v", "c", "a", "n", ".">> \o KindText(kind) \o <<".">>

\* ".id"
PortSuffix == <<".", "i", "d">>

\* "udral.pnp.cookie"
COOKIE_REGISTER ==
    <<"u", "d", "r", "a", "l", ".", "p", "n", "p", ".", "c", "o", "o", "k", "i", "e">>

\* "reject"
REJECT == <<"r", "e", "j", "e", "c", "t">>

\* f"uavcan.{kind}.{port_name}.id", as built by read_port_id and ports_to_registers.
PortRegisterName(kind, port_name) == PortPrefix(kind) \o port_name \o PortSuffix

\* The slice extract_ports takes of a matching register name.
ExtractPortName(kind, r) ==
    PySliceFromEnd(r, Len(PortPrefix(kind)) - 1, Len(PortSuffix))

\* extract_ports(kind): the comprehension over available_registers, in order.
RECURSIVE ExtractPorts(_, _)
ExtractPorts(kind, regs) ==
    IF regs = <<>> THEN <<>>
    ELSE LET r == Head(regs)
             rest == ExtractPorts(kind, Tail(regs))
         IN  IF StartsWith(r, PortPrefix(kind)) /\ EndsWith(r, PortSuffix)
             THEN <<ExtractPortName(kind, r)>> \o rest
             ELSE rest

(***************************************************************************)
(* Register values (uavcan.register.Value: a tagged union).                *)
(***************************************************************************)
Empty == [tag |-> "empty", s |-> <<>>, n |-> 0]

StringValue(text) == [tag |-> "string", s |-> text, n |-> 0]

Natural16(number) == [tag |-> "natural16", s |-> <<>>, n |-> number]

\* No value received (yet).
NoValue == [tag |-> "none", s |-> <<>>, n |-> 0]

\* int(register.ValueProxy(value)) is defined for numeric values only.
IsNumeric(value) == value.tag = "natural16"

(***************************************************************************)
(* Python dict: a sequence of <<key, value>> pairs in insertion order.     *)
(***************************************************************************)
DictHas(d, key) == \E k \in 1..Len(d) : d[k][1] = key

\* d[key] = value: an existing key keeps its position.
DictSet(d, key, value) ==
    IF DictHas(d, key)
    THEN [k \in 1..Len(d) |-> IF d[k][1] = key THEN <<key, value>> ELSE d[k]]
    ELSE Append(d, <<key, value>>)

\* d.update(e)
RECURSIVE DictUpdate(_, _)
DictUpdate(d, e) ==
    IF e = <<>> THEN d ELSE DictUpdate(DictSet(d, Head(e)[1], Head(e)[2]), Tail(e))

\* PortAssignment()
EmptyAssignment == [pub |-> <<>>, sub |-> <<>>, cln |-> <<>>, srv |-> <<>>]

(***************************************************************************)
(* The cookie check of the run.                                            *)
(***************************************************************************)
\* value.string.value.tobytes().decode().strip().lower()
NormalizeCookie(text) == Lower(Strip(text))

\* Faulty variant: the expected-cookie test is dropped.
CheckCookieNoExpected(value, expected) ==
    IF value.tag # "string" THEN "NOT_CAPABLE"
    ELSE IF NormalizeCookie(value.s) = REJECT THEN "REJECTED"
    ELSE "NEEDS_CONFIG"

\* Faulty variant: the "reject" test is dropped.
CheckCookieNoReject(value, expected) ==
    IF value.tag # "string" THEN "NOT_CAPABLE"
    ELSE IF NormalizeCookie(value.s) = expected THEN "ALREADY_CONFIGURED"
    ELSE "NEEDS_CONFIG"

\* Faulty variant: the type test is dropped.
CheckCookieNoType(value, expected) ==
    IF NormalizeCookie(value.s) = expected THEN "ALREADY_CONFIGURED"
    ELSE IF NormalizeCookie(value.s) = REJECT THEN "REJECTED"
    ELSE "NEEDS_CONFIG"

\* The three early returns after the cookie read, in the order of the code.
CheckCookie(value, expected) ==
    IF value.tag # "string" THEN "NOT_CAPABLE"
    ELSE IF NormalizeCookie(value.s) = expected THEN "ALREADY_CONFIGURED"
    ELSE IF NormalizeCookie(value.s) = REJECT THEN "REJECTED"
    ELSE "NEEDS_CONFIG"

(***************************************************************************)
(* The registers the run writes.                                           *)
(***************************************************************************)
\* ports_to_registers(kind, ports)
PortsToRegisters(kind, ports) ==
    DictUpdate(<<>>, [k \in 1..Len(ports) |->
        <<PortRegisterName(kind, ports[k][1]), Natural16(ports[k][2])>>])

\* Faulty variant: the cookie is entered before the port registers.
FinalRegistersCookieFirst(new_ports, expected) ==
    DictUpdate(DictUpdate(DictUpdate(DictUpdate(
        DictSet(<<>>, COOKIE_REGISTER, StringValue(expected)),
        PortsToRegisters("pub", new_ports.pub)),
        PortsToRegisters("sub", new_ports.sub)),
        PortsToRegisters("cln", new_ports.cln)),
        PortsToRegisters("srv", new_ports.srv))

\* final_registers: the four updates, then the cookie.
FinalRegisters(new_ports, expected) ==
    DictSet(
        DictUpdate(DictUpdate(DictUpdate(DictUpdate(<<>>,
            PortsToRegisters("pub", new_ports.pub)),
            PortsToRegisters("sub", new_ports.sub)),
            PortsToRegisters("cln", new_ports.cln)),
            PortsToRegisters("srv", new_ports.srv)),
        COOKIE_REGISTER, StringValue(expected))

(***************************************************************************)
(* The remote register store: an ordered list of [name, value]. A register *)
(* that does not exist reads as the empty value and cannot be written; a   *)
(* write to an existing register is taken or refused by the remote, which  *)
(* answers with the value the register then holds.                         *)
(***************************************************************************)
RemoteHas(store, name) == \E k \in 1..Len(store) : store[k].name = name

RemoteRead(store, name) ==
    IF RemoteHas(store, name)
    THEN store[CHOOSE k \in 1..Len(store) : store[k].name = name].value
    ELSE Empty

RemoteWrite(store, name, value, accept) ==
    IF accept
    THEN [k \in 1..Len(store) |->
            IF store[k].name = name THEN [name |-> name, value |-> value] ELSE store[k]]
    ELSE store

\* uavcan.register.List: the name at the index, empty past the end.
RemoteList(store, index) ==
    IF index < Len(store) THEN store[index + 1].name ELSE <<>>

\* d[key]
DictGet(d, key) == d[CHOOSE k \in 1..Len(d) : d[k][1] = key][2]

\* del d[key]
DictDel(d, key) == SelectSeq(d, LAMBDA e : e[1] # key)

\* list(d)
DictKeys(d) == [k \in 1..Len(d) |-> d[k][1]]

(***************************************************************************)
(* The port-name resolvers: service_detector (heuristic) and               *)
(* service_discoverer (registry-driven). Both build                        *)
(* dict service -> dict instance -> PortSuffixMapping; a port name and     *)
(* its components are texts, a registry service name is an opaque string.  *)
(***************************************************************************)
\* str.split(".", maxsplit); a negative maxsplit is no limit, as in Python.
RECURSIVE PySplit(_, _)
PySplit(s, maxsplit) ==
    IF maxsplit = 0 \/ ~\E k \in 1..Len(s) : s[k] = "."
    THEN <<s>>
    ELSE LET d == CHOOSE k \in 1..Len(s) :
                     s[k] = "." /\ \A j \in 1..(k - 1) : s[j] # "."
         IN  <<SubSeq(s, 1, d - 1)>> \o PySplit(SubSeq(s, d + 1, Len(s)), maxsplit - 1)

\* str.strip("."): drops leading and trailing dots.
RECURSIVE LStripDots(_)
LStripDots(s) == IF s # <<>> /\ Head(s) = "." THEN LStripDots(Tail(s)) ELSE s

RECURSIVE RStripDots(_)
RStripDots(s) ==
    IF s # <<>> /\ s[Len(s)] = "." THEN RStripDots(SubSeq(s, 1, Len(s) - 1)) ELSE s

StripDots(s) == RStripDots(LStripDots(s))

\* PortSuffixMapping()
PortSuffixMapping == [pub |-> <<>>, sub |-> <<>>, cln |-> <<>>, srv |-> <<>>]

\* Faulty variant: every port is entered under the unnamed instance.
PsmAssignNoInstance(out, kind, e) ==
    LET out1 == IF DictHas(out, e[1]) THEN out ELSE DictSet(out, e[1], <<>>)
        instances == DictGet(out1, e[1])
        instances1 == IF DictHas(instances, <<>>) THEN instances
                      ELSE DictSet(instances, <<>>, PortSuffixMapping)
        mapping == [DictGet(instances1, <<>>) EXCEPT ![kind] = DictSet(@, e[3], e[4])]
    IN  DictSet(out1, e[1], DictSet(instances1, <<>>, mapping))

\* psm(svc, ins).<kind>[suf] = port, for e = (svc, ins, suf, port): the two
\* setdefault calls enter a new service and a new instance at the end.
PsmAssign(out, kind, e) ==
    LET out1 == IF DictHas(out, e[1]) THEN out ELSE DictSet(out, e[1], <<>>)
        instances == DictGet(out1, e[1])
        instances1 == IF DictHas(instances, e[2]) THEN instances
                      ELSE DictSet(instances, e[2], PortSuffixMapping)
        mapping == [DictGet(instances1, e[2]) EXCEPT ![kind] = DictSet(@, e[3], e[4])]
    IN  DictSet(out1, e[1], DictSet(instances1, e[2], mapping))

\* for svc, ins, suf, port in <tuples>: psm(svc, ins).<kind>[suf] = port
RECURSIVE AssignAll(_, _, _)
AssignAll(out, kind, tuples) ==
    IF tuples = <<>> THEN out
    ELSE AssignAll(PsmAssign(out, kind, Head(tuples)), kind, Tail(tuples))

\* Faulty variant: the name is split at every dot.
DetectorSplitEveryDot(port_names) ==
    [k \in 1..Len(port_names) |->
        LET pn == port_names[k]
            p == PySplit(pn, -1)
        IN  IF Len(p) > 2 THEN <<p[1], p[2], p[3], pn>>
            ELSE IF Len(p) > 1 THEN <<p[1], <<>>, p[2], pn>>
            ELSE <<<<>>, <<>>, p[1], pn>>]

\* service_detector._split: (service, instance, suffix, port name) per name.
DetectorSplit(port_names) ==
    [k \in 1..Len(port_names) |->
        LET pn == port_names[k]
            p == PySplit(pn, 2)
        IN  IF Len(p) > 2 THEN <<p[1], p[2], p[3], pn>>
            ELSE IF Len(p) > 1 THEN <<p[1], <<>>, p[2], pn>>
            ELSE <<<<>>, <<>>, p[1], pn>>]

\* Faulty variant: the servers are scanned first.
DetectSrvFirst(pub, sub, cln, srv) ==
    AssignAll(AssignAll(AssignAll(AssignAll(<<>>,
        "srv", DetectorSplit(srv)),
        "pub", DetectorSplit(pub)),
        "sub", DetectorSplit(sub)),
        "cln", DetectorSplit(cln))

\* service_detector.detect_service_instances
detect_service_instances(pub, sub, cln, srv) ==
    AssignAll(AssignAll(AssignAll(AssignAll(<<>>,
        "pub", DetectorSplit(pub)),
        "sub", DetectorSplit(sub)),
        "cln", DetectorSplit(cln)),
        "srv", DetectorSplit(srv))

\* Faulty variant: a name is split at its first dot only.
RECURSIVE InstanceMatchesFirstDot(_, _, _)
InstanceMatchesFirstDot(service_name, ins, port_names) ==
    IF port_names = <<>> THEN <<>>
    ELSE LET pn == Head(port_names)
             components == PySplit(pn, 1)
             rest == InstanceMatchesFirstDot(service_name, ins, Tail(port_names))
         IN  IF Len(components) = 2 /\ ins = components[1]
             THEN <<<<service_name, ins, components[2], pn>>>> \o rest
             ELSE rest

\* The innermost loop of service_discoverer._split: for pn in port_names.
RECURSIVE InstanceMatches(_, _, _)
InstanceMatches(service_name, ins, port_names) ==
    IF port_names = <<>> THEN <<>>
    ELSE LET pn == Head(port_names)
             components == PySplit(pn, -1)
             rest == InstanceMatches(service_name, ins, Tail(port_names))
         IN  IF Len(components) = 2 /\ ins = components[1]
             THEN <<<<service_name, ins, components[2], pn>>>> \o rest
             ELSE rest

\* The middle loop: for ins in instance_names, with ins = ins.strip(".").
RECURSIVE ServiceMatches(_, _, _)
ServiceMatches(service_name, instance_names, port_names) ==
    IF instance_names = <<>> THEN <<>>
    ELSE InstanceMatches(service_name, StripDots(Head(instance_names)), port_names)
         \o ServiceMatches(service_name, Tail(instance_names), port_names)

\* Faulty variant: the port names are the outer loop, the registry the inner.
RECURSIVE DiscovererSplitPortsOuter(_, _)
DiscovererSplitPortsOuter(service_instance_prefixes, port_names) ==
    LET RECURSIVE Registry(_, _)
        Registry(reg, pn) ==
            IF reg = <<>> THEN <<>>
            ELSE ServiceMatches(Head(reg)[1], Head(reg)[2], <<pn>>) \o Registry(Tail(reg), pn)
    IN  IF port_names = <<>> THEN <<>>
        ELSE Registry(service_instance_prefixes, Head(port_names))
             \o DiscovererSplitPortsOuter(service_instance_prefixes, Tail(port_names))

\* service_discoverer._split: the outer loop over service_instance_prefixes.items().
RECURSIVE DiscovererSplit(_, _)
DiscovererSplit(service_instance_prefixes, port_names) ==
    IF service_instance_prefixes = <<>> THEN <<>>
    ELSE ServiceMatches(Head(service_instance_prefixes)[1],
                        Head(service_instance_prefixes)[2], port_names)
         \o DiscovererSplit(Tail(service_instance_prefixes), port_names)

\* service_discoverer.discover_service_instances
discover_service_instances(service_instance_prefixes, pub, sub, cln, srv) ==
    AssignAll(AssignAll(AssignAll(AssignAll(<<>>,
        "pub", DiscovererSplit(service_instance_prefixes, pub)),
        "sub", DiscovererSplit(service_instance_prefixes, sub)),
        "cln", DiscovererSplit(service_instance_prefixes, cln)),
        "srv", DiscovererSplit(service_instance_prefixes, srv))

(***************************************************************************)
(* State.                                                                  *)
(***************************************************************************)
VARIABLES
    expected_pnp_cookie, \* main: the cookie of this network
    service_allocator,   \* what the run is given as its policy
    remote,              \* per remote node, its register store
    tasks,               \* the asyncio tasks (runs) still referenced, by task number
    created,             \* how many tasks have been created
    alloc_tasks,         \* main: dict node id -> task number
    main_alive,          \* FALSE once an exception has left main's loop
    configured,          \* history: nodes a run configured to the end, every write confirmed
    swept_failed,        \* history: nodes a run of which ended with an error and was swept
    resolver,            \* an application of a port-name resolver: its arguments and result
    airspeed,            \* main: the airspeed client slots, None or a client
    servo,               \* main: the servo client slots, None or a client
    registry,            \* the registry of the local node: its port-ID registers
    invocation,          \* the latest invocation of allocate_services, the run it is part of
                         \* and, if that is a retry, the run before
    issued               \* history: per port ID, the nodes it was returned for, oldest first

\* The service clients of the application and what records their allocation.
application == <<airspeed, servo, registry, invocation, issued>>

vars == <<expected_pnp_cookie, service_allocator, remote, tasks, created, alloc_tasks,
          main_alive, configured, swept_failed, resolver, application>>

(***************************************************************************)
(* Requests a run issues, recorded per run in the order issued.            *)
(***************************************************************************)
GetOp(name) == [op |-> "get", name |-> name, value |-> Empty, index |-> 0, code |-> ""]

SetOp(name, value) == [op |-> "set", name |-> name, value |-> value, index |-> 0, code |-> ""]

ListOp(index) == [op |-> "list", name |-> <<>>, value |-> Empty, index |-> index, code |-> ""]

CommandOp(code) == [op |-> "command", name |-> <<>>, value |-> Empty, index |-> 0, code |-> code]

(***************************************************************************)
(* One run of perform_automatic_port_id_allocation. pc is the await the    *)
(* coroutine is suspended at: "start" (created, not yet run), "cookie",    *)
(* "list", "read", "write", "persist", "restart", then "done". "policy" is *)
(* the point of the service_allocator call, passed within one step.        *)
(***************************************************************************)
NewTask(remote_node_id) ==
    [node |-> remote_node_id, pc |-> "start", must_cancel |-> FALSE,
     result |-> "", outcome |-> "", raised_at |-> "", no_response |-> "",
     cookie_value |-> NoValue, policy_called |-> FALSE,
     i |-> 0, available_registers |-> <<>>, to_read |-> <<>>, k |-> 0,
     original_ports |-> EmptyAssignment, new_ports |-> EmptyAssignment,
     final_registers |-> <<>>, w |-> 0, mismatched |-> {}, unanswered |-> {},
     ops |-> <<>>]

Issue(tk, op) == [tk EXCEPT !.ops = Append(@, op)]

\* The coroutine returns.
Return(tk, outcome) == [tk EXCEPT !.pc = "done", !.result = "ok", !.outcome = outcome]

\* The coroutine ends with an exception.
Raise(tk, exception, where) ==
    [tk EXCEPT !.pc = "done", !.result = exception, !.raised_at = where]

\* A register round trip got no response: NetworkTimeoutError is raised.
NoResponse(tk, where) ==
    [Raise(tk, "NetworkTimeoutError", where) EXCEPT !.no_response = where]

\* access("udral.pnp.cookie") answered or not, then the cookie check.
HandleCookieResponse(tk, answered, value, expected) ==
    IF ~answered THEN NoResponse(tk, "cookie")
    ELSE LET tk1 == [tk EXCEPT !.cookie_value = value]
         IN  IF CheckCookie(value, expected) # "NEEDS_CONFIG"
             THEN Return(tk1, CheckCookie(value, expected))
             ELSE Issue([tk1 EXCEPT !.pc = "list", !.i = 0], ListOp(0))

\* The port names of the four kinds, in the order they are read.
ToRead(regs) ==
    LET Tagged(kind) ==
            LET names == ExtractPorts(kind, regs)
            IN  [j \in 1..Len(names) |-> [kind |-> kind, name |-> names[j]]]
    IN  Tagged("pub") \o Tagged("sub") \o Tagged("cln") \o Tagged("srv")

\* After the enumeration: extract the ports and issue the first read, if any.
BeginReads(tk) ==
    LET ports == ToRead(tk.available_registers)
    IN  IF ports = <<>>
        THEN [tk EXCEPT !.pc = "policy"]
        ELSE Issue([tk EXCEPT !.pc = "read", !.to_read = ports, !.k = 1],
                   GetOp(PortRegisterName(ports[1].kind, ports[1].name)))

\* Faulty variant: a list request that gets no response ends the enumeration.
HandleListResponseNoRaise(tk, answered, nm) ==
    IF ~answered THEN BeginReads([tk EXCEPT !.no_response = "list"])
    ELSE IF nm = <<>> THEN BeginReads(tk)
    ELSE Issue([tk EXCEPT !.available_registers = Append(@, nm), !.i = @ + 1],
               ListOp(tk.i + 1))

\* Faulty variant: the index is not advanced.
HandleListResponseSameIndex(tk, answered, nm) ==
    IF ~answered THEN NoResponse(tk, "list")
    ELSE IF nm = <<>> THEN BeginReads(tk)
    ELSE Issue([tk EXCEPT !.available_registers = Append(@, nm)], ListOp(tk.i))

\* One iteration of the enumeration loop.
HandleListResponse(tk, answered, nm) ==
    IF ~answered THEN NoResponse(tk, "list")
    ELSE IF nm = <<>> THEN BeginReads(tk)
    ELSE Issue([tk EXCEPT !.available_registers = Append(@, nm), !.i = @ + 1],
               ListOp(tk.i + 1))

\* read_port_id answered or not, then the next read or the policy.
HandleReadResponse(tk, answered, value) ==
    IF ~answered THEN NoResponse(tk, "read")
    ELSE IF ~IsNumeric(value) THEN Raise(tk, "ValueConversionError", "read")
    ELSE LET p == tk.to_read[tk.k]
             tk1 == [tk EXCEPT !.original_ports[p.kind] = DictSet(@, p.name, value.n)]
         IN  IF tk.k < Len(tk.to_read)
             THEN Issue([tk1 EXCEPT !.k = @ + 1],
                        GetOp(PortRegisterName(tk.to_read[tk.k + 1].kind,
                                               tk.to_read[tk.k + 1].name)))
             ELSE [tk1 EXCEPT !.pc = "policy"]

\* final_registers is built and its first write issued.
BeginWrites(tk, new_ports, expected) ==
    LET fr == FinalRegisters(new_ports, expected)
    IN  Issue([tk EXCEPT !.pc = "write", !.new_ports = new_ports,
                         !.final_registers = fr, !.w = 1],
              SetOp(fr[1][1], fr[1][2]))

\* Faulty variant: a write answered with another value aborts the run.
HandleWriteResponseAbort(tk, answered, value) ==
    IF ~answered THEN NoResponse(tk, "write")
    ELSE IF value # tk.final_registers[tk.w][2]
    THEN Raise([tk EXCEPT !.mismatched = @ \cup {tk.w}], "ValueError", "write")
    ELSE IF tk.w < Len(tk.final_registers)
         THEN Issue([tk EXCEPT !.w = @ + 1],
                    SetOp(tk.final_registers[tk.w + 1][1], tk.final_registers[tk.w + 1][2]))
         ELSE Issue([tk EXCEPT !.pc = "persist"], CommandOp("STORE_PERSISTENT_STATES"))

\* Faulty variant: a write that gets no response is taken as done.
HandleWriteResponseNoRaise(tk, answered, value) ==
    LET tk1 == IF ~answered THEN [tk EXCEPT !.no_response = "write"] ELSE tk
    IN  IF tk.w < Len(tk.final_registers)
        THEN Issue([tk1 EXCEPT !.w = @ + 1],
                   SetOp(tk.final_registers[tk.w + 1][1], tk.final_registers[tk.w + 1][2]))
        ELSE Issue([tk1 EXCEPT !.pc = "persist"], CommandOp("STORE_PERSISTENT_STATES"))

\* One iteration of the write loop; after the last, the persist command.
HandleWriteResponse(tk, answered, value) ==
    IF ~answered THEN NoResponse(tk, "write")
    ELSE LET tk1 == IF value # tk.final_registers[tk.w][2]
                    THEN [tk EXCEPT !.mismatched = @ \cup {tk.w}]
                    ELSE tk
         IN  IF tk.w < Len(tk.final_registers)
             THEN Issue([tk1 EXCEPT !.w = @ + 1],
                        SetOp(tk.final_registers[tk.w + 1][1],
                              tk.final_registers[tk.w + 1][2]))
             ELSE Issue([tk1 EXCEPT !.pc = "persist"],
                        CommandOp("STORE_PERSISTENT_STATES"))

\* Faulty variant: a command that gets no response aborts the run.
HandleCommandResponseRaise(tk, answered) ==
    IF ~answered
    THEN Raise([tk EXCEPT !.unanswered = @ \cup {tk.pc}], "NetworkTimeoutError", tk.pc)
    ELSE IF tk.pc = "persist"
    THEN Issue([tk EXCEPT !.pc = "restart"], CommandOp("RESTART"))
    ELSE Return(tk, "DONE")

\* try_command: an unanswered command is logged only; unanswered keeps which
\* of the two commands got no response.
HandleCommandResponse(tk, answered) ==
    LET tk1 == IF ~answered THEN [tk EXCEPT !.unanswered = @ \cup {tk.pc}] ELSE tk
    IN  IF tk.pc = "persist"
        THEN Issue([tk1 EXCEPT !.pc = "restart"], CommandOp("RESTART"))
        ELSE Return(tk1, "DONE")

(***************************************************************************)
(* The service_allocator call. main passes allocate_services, which takes  *)
(* three positional arguments, and the run calls it with one: the call     *)
(* raises TypeError. A callable of the declared type                       *)
(* Callable[[PortAssignment], PortAssignment] returns an assignment of its *)
(* choice.                                                                 *)
(***************************************************************************)
\* id_dynamics = 5000 + free_index
ID_DYNAMICS_BASE == 5000

\* id_setpoint = 5050 + free_index
ID_SETPOINT_BASE == 5050

\* id_diff_pres = 6010 + free_index
ID_DIFF_PRES_BASE == 6010

\* id_temp = 6020 + free_index
ID_TEMP_BASE == 6020

PORT_ID_UNSET == 65535

PortA == <<"a">>

PortB == <<"b">>

CallableResults(original_ports) ==
    { EmptyAssignment,
      [EmptyAssignment EXCEPT !.pub = <<<<PortA, 100>>>>, !.sub = <<<<PortB, 101>>>>],
      original_ports }

InvokePolicy(t, tk) ==
    IF service_allocator = "allocate_services"
    THEN tasks' = [tasks EXCEPT ![t] =
                      Raise([tk EXCEPT !.policy_called = TRUE], "TypeError", "policy")]
    ELSE \E new_ports \in CallableResults(tk.original_ports) :
            tasks' = [tasks EXCEPT ![t] =
                         BeginWrites([tk EXCEPT !.policy_called = TRUE], new_ports,
                                     expected_pnp_cookie)]

\* A step that ends at the policy call goes through it before suspending again.
Resume(t, tk) ==
    IF tk.pc = "policy" THEN InvokePolicy(t, tk) ELSE tasks' = [tasks EXCEPT ![t] = tk]

\* Faulty variant: a cancelled task goes on running.
RunnableIgnoringCancel(t, pc) ==
    /\ main_alive
    /\ t \in DOMAIN tasks
    /\ tasks[t].pc = pc

\* The task is suspended at pc and no cancellation is pending.
Runnable(t, pc) ==
    /\ main_alive
    /\ t \in DOMAIN tasks
    /\ tasks[t].pc = pc
    /\ ~tasks[t].must_cancel

\* The task object is gone once it is done and no longer referenced.
Drop(ts, t) == [x \in DOMAIN ts \ {t} |-> ts[x]]

(***************************************************************************)
(* Steps of a run: each resumes the coroutine at its await and runs it to  *)
(* the next one.                                                           *)
(***************************************************************************)
\* The task is first scheduled: the cookie read is requested.
Start(t) ==
    /\ Runnable(t, "start")
    /\ tasks' = [tasks EXCEPT ![t] = Issue([@ EXCEPT !.pc = "cookie"], GetOp(COOKIE_REGISTER))]
    /\ UNCHANGED <<expected_pnp_cookie, service_allocator, remote, created, alloc_tasks,
                   main_alive, configured, swept_failed,
                   resolver, application>>

CookieResponse(t) ==
    /\ Runnable(t, "cookie")
    /\ \E answered \in BOOLEAN :
          tasks' = [tasks EXCEPT ![t] =
                      HandleCookieResponse(@, answered,
                                           RemoteRead(remote[@.node], COOKIE_REGISTER),
                                           expected_pnp_cookie)]
    /\ UNCHANGED <<expected_pnp_cookie, service_allocator, remote, created, alloc_tasks,
                   main_alive, configured, swept_failed,
                   resolver, application>>

ListResponse(t) ==
    /\ Runnable(t, "list")
    /\ \E answered \in BOOLEAN :
          Resume(t, HandleListResponse(tasks[t], answered,
                                       RemoteList(remote[tasks[t].node], tasks[t].i)))
    /\ UNCHANGED <<expected_pnp_cookie, service_allocator, remote, created, alloc_tasks,
                   main_alive, configured, swept_failed,
                   resolver, application>>

ReadResponse(t) ==
    /\ Runnable(t, "read")
    /\ \E answered \in BOOLEAN :
          Resume(t, HandleReadResponse(tasks[t], answered,
                      RemoteRead(remote[tasks[t].node],
                                 PortRegisterName(tasks[t].to_read[tasks[t].k].kind,
                                                  tasks[t].to_read[tasks[t].k].name))))
    /\ UNCHANGED <<expected_pnp_cookie, service_allocator, remote, created, alloc_tasks,
                   main_alive, configured, swept_failed,
                   resolver, application>>

\* The remote takes or refuses the write; its answer may be lost.
WriteResponse(t) ==
    /\ Runnable(t, "write")
    /\ \E answered \in BOOLEAN, accept \in BOOLEAN :
          LET tk == tasks[t]
              rn == tk.final_registers[tk.w][1]
              rv == tk.final_registers[tk.w][2]
              store == RemoteWrite(remote[tk.node], rn, rv, accept)
          IN  /\ remote' = [remote EXCEPT ![tk.node] = store]
              /\ tasks' = [tasks EXCEPT ![t] =
                              HandleWriteResponse(tk, answered, RemoteRead(store, rn))]
    /\ UNCHANGED <<expected_pnp_cookie, service_allocator, created, alloc_tasks, main_alive,
                   configured, swept_failed,
                   resolver, application>>

CommandResponse(t) ==
    /\ Runnable(t, "persist") \/ Runnable(t, "restart")
    /\ \E answered \in BOOLEAN :
          tasks' = [tasks EXCEPT ![t] = HandleCommandResponse(@, answered)]
    /\ configured' = IF tasks[t].pc = "restart" /\ tasks[t].mismatched = {}
                     THEN configured \cup {tasks[t].node}
                     ELSE configured
    /\ UNCHANGED <<expected_pnp_cookie, service_allocator, remote, created, alloc_tasks,
                   main_alive, swept_failed,
                   resolver, application>>

\* The task is the value of an entry of alloc_tasks.
Tracked(t) == \E k \in 1..Len(alloc_tasks) : alloc_tasks[k][2] = t

\* A cancelled task is resumed with CancelledError at its await and ends; a
\* write already requested may still reach the remote. The task object stays
\* for as long as alloc_tasks refers to it.
Cancelled(t) ==
    /\ main_alive
    /\ t \in DOMAIN tasks
    /\ tasks[t].pc # "done"
    /\ tasks[t].must_cancel
    /\ tasks' = IF Tracked(t)
                THEN [tasks EXCEPT ![t] = Raise(@, "CancelledError", @.pc)]
                ELSE Drop(tasks, t)
    /\ IF tasks[t].pc = "write"
       THEN \E accept \in BOOLEAN :
               remote' = [remote EXCEPT ![tasks[t].node] =
                             RemoteWrite(@, tasks[t].final_registers[tasks[t].w][1],
                                         tasks[t].final_registers[tasks[t].w][2], accept)]
       ELSE UNCHANGED remote
    /\ UNCHANGED <<expected_pnp_cookie, service_allocator, created, alloc_tasks, main_alive,
                   configured, swept_failed,
                   resolver, application>>

(***************************************************************************)
(* The supervisor: on_node_status_change and the sweep of main's loop.     *)
(***************************************************************************)
\* Faulty variant: the cancellation reaches every run.
CancelTaskAll(ts, t) == [x \in DOMAIN ts |-> [ts[x] EXCEPT !.must_cancel = TRUE]]

\* alloc_tasks[remote_node_id].cancel(): no effect on a task that is done, which
\* the del that follows leaves unreferenced.
CancelTask(ts, t) ==
    IF ts[t].pc = "done" THEN Drop(ts, t) ELSE [ts EXCEPT ![t].must_cancel = TRUE]

\* Faulty variant: a node whose tracked run has finished gets a new run.
StartAllowedIfDone(remote_node_id) ==
    \/ ~DictHas(alloc_tasks, remote_node_id)
    \/ tasks[DictGet(alloc_tasks, remote_node_id)].pc = "done"

\* Faulty variant: the node is not looked up before a run is started.
StartAllowedAlways(remote_node_id) == TRUE

\* elif remote_node_id not in alloc_tasks
StartAllowed(remote_node_id) == ~DictHas(alloc_tasks, remote_node_id)

\* Faulty variant: the run is cancelled and its entry is left in alloc_tasks.
NodeOfflineNoDel(remote_node_id) ==
    /\ main_alive
    /\ IF DictHas(alloc_tasks, remote_node_id)
          /\ tasks[DictGet(alloc_tasks, remote_node_id)].pc # "done"
       THEN tasks' = [tasks EXCEPT ![DictGet(alloc_tasks, remote_node_id)].must_cancel = TRUE]
       ELSE UNCHANGED tasks
    /\ UNCHANGED <<expected_pnp_cookie, service_allocator, remote, created, alloc_tasks,
                   main_alive, configured, swept_failed, resolver, application>>

\* entry is None
NodeOffline(remote_node_id) ==
    /\ main_alive
    /\ IF DictHas(alloc_tasks, remote_node_id)
       THEN /\ tasks' = CancelTask(tasks, DictGet(alloc_tasks, remote_node_id))
            /\ alloc_tasks' = DictDel(alloc_tasks, remote_node_id)
       ELSE UNCHANGED <<tasks, alloc_tasks>>
    /\ UNCHANGED <<expected_pnp_cookie, service_allocator, remote, created, main_alive,
                   configured, swept_failed,
                   resolver, application>>

\* entry is not None
NodeOnline(remote_node_id) ==
    /\ main_alive
    /\ IF StartAllowed(remote_node_id)
       THEN /\ created < MaxTasks
            /\ created' = created + 1
            /\ tasks' = tasks @@ (created + 1 :> NewTask(remote_node_id))
            /\ alloc_tasks' = DictSet(alloc_tasks, remote_node_id, created + 1)
       ELSE UNCHANGED <<tasks, created, alloc_tasks>>
    /\ UNCHANGED <<expected_pnp_cookie, service_allocator, remote, main_alive, configured,
                   swept_failed, resolver, application>>

\* Faulty variant: the exception of a finished run leaves the loop.
RECURSIVE SweepKeysNoCatch(_, _, _)
SweepKeysNoCatch(keys, d, ts) ==
    IF keys = <<>> THEN [alloc_tasks |-> d, tasks |-> ts, alive |-> TRUE]
    ELSE LET t == DictGet(d, Head(keys))
         IN  IF ts[t].pc # "done" THEN SweepKeysNoCatch(Tail(keys), d, ts)
             ELSE IF ts[t].result # "ok"
             THEN [alloc_tasks |-> d, tasks |-> ts, alive |-> FALSE]
             ELSE SweepKeysNoCatch(Tail(keys), DictDel(d, Head(keys)), Drop(ts, t))

\* The for loop over list(alloc_tasks): [dict left, tasks left, alive]. t.result()
\* of a cancelled task raises CancelledError, which "except Exception" lets through.
RECURSIVE SweepKeys(_, _, _)
SweepKeys(keys, d, ts) ==
    IF keys = <<>> THEN [alloc_tasks |-> d, tasks |-> ts, alive |-> TRUE]
    ELSE LET t == DictGet(d, Head(keys))
         IN  IF ts[t].pc # "done" THEN SweepKeys(Tail(keys), d, ts)
             ELSE IF ts[t].result = "CancelledError"
             THEN [alloc_tasks |-> d, tasks |-> ts, alive |-> FALSE]
             ELSE SweepKeys(Tail(keys), DictDel(d, Head(keys)), Drop(ts, t))

Sweep ==
    /\ main_alive
    /\ alloc_tasks' = SweepKeys(DictKeys(alloc_tasks), alloc_tasks, tasks).alloc_tasks
    /\ tasks' = SweepKeys(DictKeys(alloc_tasks), alloc_tasks, tasks).tasks
    /\ main_alive' = SweepKeys(DictKeys(alloc_tasks), alloc_tasks, tasks).alive
    /\ swept_failed' = swept_failed \cup
          {n \in Nodes : /\ DictHas(alloc_tasks, n)
                         /\ ~DictHas(alloc_tasks', n)
                         /\ tasks[DictGet(alloc_tasks, n)].result # "ok"}
    /\ UNCHANGED <<expected_pnp_cookie, service_allocator, remote, created, configured,
                   resolver, application>>

(***************************************************************************)
(* The application: the client slots of main and allocate_services.        *)
(***************************************************************************)
\* A free slot.
None == [class |-> "NoneType"]

PITOT == "reg.udral.service.pitot"

SERVO == "reg.udral.service.actuator.servo"

\* The suffixes that allocate_services looks for. A word of a port name that
\* has no dot in it is written as one element of the text.
DIFFERENTIAL_PRESSURE == <<"differential_pressure">>

STATIC_AIR_TEMPERATURE == <<"static_air_temperature">>

DYNAMICS == <<"dynamics">>

SETPOINT == <<"setpoint">>

\* The name of a port-ID register of the local node, uavcan.<kind>.<prefix>.<port>.id,
\* where the prefix is <client>.<index>.
LocalRegister(kind, client, index, port) == <<"uavcan", kind, client, index, port, "id">>

\* node.make_subscriber / make_publisher find the port configured.
PortConfigured(reg, name) == DictHas(reg, name) /\ DictGet(reg, name) # PORT_ID_UNSET

\* AirspeedClient(node, f"airspd.{index}"): the temperature subject is optional.
AirspeedClient(reg, index) ==
    [prefix |-> <<"airspd", index>>,
     temperature |-> PortConfigured(reg, LocalRegister("sub", "airspd", index, "temperature"))]

\* ServoClient(node, f"servo.{index}")
ServoClient(index) == [prefix |-> <<"servo", index>>]

\* list.index(None) finds a free slot.
HasFree(slots) == \E k \in 1..Len(slots) : slots[k] = None

\* Faulty variant: the first slot is taken whether it is free or not.
IndexOfNoneFirstSlot(slots) == 0

\* list.index(None): the index, counted from 0, of the first free slot.
IndexOfNone(slots) ==
    (CHOOSE k \in 1..Len(slots) : slots[k] = None /\ \A j \in 1..(k - 1) : slots[j] # None) - 1

\* services.get(name, {}).items()
ServiceItems(services, name) == IF DictHas(services, name) THEN DictGet(services, name) ELSE <<>>

\* for instance_name, psm in services.get("reg.udral.service.pitot", {}).items(): ...
\* over st = the slots, the registry and the assignment built so far.
RECURSIVE AirspeedLoop(_, _)
AirspeedLoop(items, st) ==
    IF items = <<>> THEN st
    ELSE LET psm == Head(items)[2]
         IN  IF ~DictHas(psm.pub, DIFFERENTIAL_PRESSURE) THEN AirspeedLoop(Tail(items), st)
             ELSE IF ~HasFree(st.airspeed) THEN st
             ELSE LET free_index == IndexOfNone(st.airspeed)
                      id_diff_pres == ID_DIFF_PRES_BASE + free_index
                      id_temp == ID_TEMP_BASE + free_index
                      temp == DictHas(psm.pub, STATIC_AIR_TEMPERATURE)
                      registry1 == DictSet(st.registry,
                                       LocalRegister("sub", "airspd", free_index, "diff_pressure"),
                                       id_diff_pres)
                      pub1 == DictSet(st.final.pub, DictGet(psm.pub, DIFFERENTIAL_PRESSURE),
                                      id_diff_pres)
                      registry2 == IF temp
                                   THEN DictSet(registry1,
                                            LocalRegister("sub", "airspd", free_index, "temperature"),
                                            id_temp)
                                   ELSE registry1
                      pub2 == IF temp
                              THEN DictSet(pub1, DictGet(psm.pub, STATIC_AIR_TEMPERATURE), id_temp)
                              ELSE pub1
                  IN  AirspeedLoop(Tail(items),
                          [st EXCEPT !.registry = registry2,
                                     !.final.pub = pub2,
                                     !.airspeed[free_index + 1] = AirspeedClient(registry2, free_index)])

\* for instance_name, psm in services.get("reg.udral.service.actuator.servo", {}).items(): ...
\* The warning that ends the body evaluates airspeed[free_index], which raises
\* IndexError when the index is not one of the airspeed list.
RECURSIVE ServoLoop(_, _)
ServoLoop(items, st) ==
    IF items = <<>> THEN st
    ELSE LET psm == Head(items)[2]
         IN  IF ~DictHas(psm.pub, DYNAMICS) THEN ServoLoop(Tail(items), st)
             ELSE IF ~DictHas(psm.sub, SETPOINT) THEN ServoLoop(Tail(items), st)
             ELSE IF ~HasFree(st.servo) THEN st
             ELSE LET free_index == IndexOfNone(st.servo)
                      id_dynamics == ID_DYNAMICS_BASE + free_index
                      id_setpoint == ID_SETPOINT_BASE + free_index
                      st1 == [st EXCEPT
                                 !.registry = DictSet(DictSet(@,
                                     LocalRegister("sub", "servo", free_index, "dynamics"), id_dynamics),
                                     LocalRegister("pub", "servo", free_index, "setpoint"), id_setpoint),
                                 !.final.pub = DictSet(@, DictGet(psm.pub, DYNAMICS), id_dynamics),
                                 !.final.sub = DictSet(@, DictGet(psm.sub, SETPOINT), id_setpoint),
                                 !.servo[free_index + 1] = ServoClient(free_index)]
                  IN  IF free_index >= Len(st1.airspeed)
                      THEN [st1 EXCEPT !.raised = "IndexError"]
                      ELSE ServoLoop(Tail(items), st1)

\* The port IDs that allocate_services hands out.
PortIds ==
    {ID_DIFF_PRES_BASE + i : i \in 0..1} \cup {ID_TEMP_BASE + i : i \in 0..1}
    \cup {ID_DYNAMICS_BASE + i : i \in 0..2} \cup {ID_SETPOINT_BASE + i : i \in 0..2}

NoInvocation ==
    [remote_node_id |-> 0, service_instance_prefixes |-> <<>>, ports |-> EmptyAssignment,
     airspeed |-> <<>>, servo |-> <<>>, final |-> EmptyAssignment, raised |-> "",
     run |-> "", previous |-> [run |-> "", ids |-> {}]]

\* main.allocate_services, a closure over node, airspeed and servo: the slots
\* and the registry it leaves, and the assignment it returns unless it raises.
allocate_services(remote_node_id, service_instance_prefixes, ports) ==
    LET services == discover_service_instances(service_instance_prefixes,
                        DictKeys(ports.pub), DictKeys(ports.sub),
                        DictKeys(ports.cln), DictKeys(ports.srv))
        st == AirspeedLoop(ServiceItems(services, PITOT),
                  [airspeed |-> airspeed, servo |-> servo, registry |-> registry,
                   final |-> EmptyAssignment, raised |-> ""])
    IN  ServoLoop(ServiceItems(services, SERVO), st)

(***************************************************************************)
(* Initial states.                                                         *)
(***************************************************************************)
Register(name, value) == [name |-> name, value |-> value]

\* No resolver is being applied.
NoResolverCall ==
    [phase |-> "idle", pub |-> <<>>, sub |-> <<>>, cln |-> <<>>, srv |-> <<>>,
     service_instance_prefixes |-> <<>>, result |-> <<>>]

ExpectedCookies == {<<"a">>, <<"A">>}

RemoteStores ==
    { <<>>,
      <<Register(COOKIE_REGISTER, Natural16(0))>>,
      <<Register(COOKIE_REGISTER, StringValue(<<"b">>))>>,
      <<Register(COOKIE_REGISTER, StringValue(<<" ", "A">>))>>,
      <<Register(COOKIE_REGISTER, StringValue(<<"R", "e", "j", "e", "c", "t">>))>>,
      <<Register(PortRegisterName("sub", PortB), Natural16(PORT_ID_UNSET)),
        Register(PortRegisterName("sub", <<".">> \o PortB), Natural16(PORT_ID_UNSET)),
        Register(COOKIE_REGISTER, StringValue(<<"b">>))>> }

\* Node 1 has any of the stores; node 2 is a node without a string cookie.
Init ==
    /\ expected_pnp_cookie \in ExpectedCookies
    /\ service_allocator \in {"allocate_services", "callable"}
    /\ remote \in [Nodes -> RemoteStores]
    /\ remote[2] = <<Register(COOKIE_REGISTER, Natural16(0))>>
    /\ tasks = <<>>
    /\ created = 0
    /\ alloc_tasks = <<>>
    /\ main_alive = TRUE
    /\ configured = {}
    /\ swept_failed = {}
    /\ resolver = NoResolverCall
    /\ airspeed = [i \in 1..2 |-> None]
    /\ servo = [i \in 1..3 |-> None]
    /\ registry = <<>>
    /\ invocation = NoInvocation
    /\ issued = [id \in PortIds |-> <<>>]

Next ==
    \/ \E n \in Nodes : NodeOnline(n)
    \/ \E n \in Nodes : NodeOffline(n)
    \/ Sweep
    \/ \E t \in 1..MaxTasks : Start(t)
    \/ \E t \in 1..MaxTasks : CookieResponse(t)
    \/ \E t \in 1..MaxTasks : ListResponse(t)
    \/ \E t \in 1..MaxTasks : ReadResponse(t)
    \/ \E t \in 1..MaxTasks : WriteResponse(t)
    \/ \E t \in 1..MaxTasks : CommandResponse(t)
    \/ \E t \in 1..MaxTasks : Cancelled(t)

Spec == Init /\ [][Next]_vars

(***************************************************************************)
(* The resolvers on their own: a call of detect_service_instances or of    *)
(* discover_service_instances on bounded arguments.                        *)
(***************************************************************************)
\* "c", ".c", "a.x", "a.y", "b.x", "a.b.x", "a.b.x.y", "a..x"
PortNames ==
    { <<"c">>,
      <<".", "c">>,
      <<"a", ".", "x">>,
      <<"a", ".", "y">>,
      <<"b", ".", "x">>,
      <<"a", ".", "b", ".", "x">>,
      <<"a", ".", "b", ".", "x", ".", "y">>,
      <<"a", ".", ".", "x">> }

\* service_instance_prefixes: dicts service name -> list of instance prefixes.
Registries ==
    { <<>>,
      <<<<PITOT, <<<<"a">>>>>>>>,
      <<<<PITOT, <<<<"a">>>>>>, <<SERVO, <<<<"b">>>>>>>>,
      <<<<SERVO, <<<<"b">>>>>>, <<PITOT, <<<<"a">>>>>>>>,
      <<<<PITOT, <<<<"b">>, <<"a", ".">>>>>>>>,
      <<<<PITOT, <<<<"a">>>>>>, <<SERVO, <<<<"a">>>>>>>> }

\* The port names all of one call, cut into pub, sub, cln and srv.
ResolverCall(all, c) ==
    [phase |-> "input",
     pub |-> SubSeq(all, 1, c[1]),
     sub |-> SubSeq(all, c[1] + 1, c[2]),
     cln |-> SubSeq(all, c[2] + 1, c[3]),
     srv |-> SubSeq(all, c[3] + 1, Len(all)),
     service_instance_prefixes |-> <<>>, result |-> <<>>]

\* The supervisor is not running; the arguments of the call are chosen.
ResolverInit ==
    /\ expected_pnp_cookie = <<"a">>
    /\ service_allocator = "callable"
    /\ remote = [n \in Nodes |-> <<>>]
    /\ tasks = <<>>
    /\ created = 0
    /\ alloc_tasks = <<>>
    /\ main_alive = FALSE
    /\ configured = {}
    /\ swept_failed = {}
    /\ airspeed = [i \in 1..2 |-> None]
    /\ servo = [i \in 1..3 |-> None]
    /\ registry = <<>>
    /\ invocation = NoInvocation
    /\ issued = [id \in PortIds |-> <<>>]
    /\ \E k \in 0..MaxPorts :
          \E all \in [1..k -> PortNames], c \in (0..k) \X (0..k) \X (0..k) :
             /\ c[1] <= c[2]
             /\ c[2] <= c[3]
             /\ resolver = ResolverCall(all, c)

Detect ==
    /\ resolver.phase = "input"
    /\ resolver' = [resolver EXCEPT
                       !.phase = "detected",
                       !.result = detect_service_instances(resolver.pub, resolver.sub,
                                                           resolver.cln, resolver.srv)]
    /\ UNCHANGED <<expected_pnp_cookie, service_allocator, remote, tasks, created,
                   alloc_tasks, main_alive, configured, swept_failed, application>>

Discover ==
    /\ resolver.phase = "input"
    /\ \E service_instance_prefixes \in Registries :
          resolver' = [resolver EXCEPT
                          !.phase = "discovered",
                          !.service_instance_prefixes = service_instance_prefixes,
                          !.result = discover_service_instances(
                                         service_instance_prefixes, resolver.pub,
                                         resolver.sub, resolver.cln, resolver.srv)]
    /\ UNCHANGED <<expected_pnp_cookie, service_allocator, remote, tasks, created,
                   alloc_tasks, main_alive, configured, swept_failed, application>>

ResolverNext == Detect \/ Discover

ResolverSpec == ResolverInit /\ [][ResolverNext]_vars

(***************************************************************************)
(* Properties.                                                             *)
(***************************************************************************)
OpsOf(t, kind) == {j \in 1..Len(tasks[t].ops) : tasks[t].ops[j].op = kind}

OnlyCookieRead(t) == tasks[t].ops = <<GetOp(COOKIE_REGISTER)>>

CookieAnswered(t) == tasks[t].cookie_value.tag # "none"

\* The cookie as the run reads it: decoded, stripped, lower-cased.
CookieRead(t) == NormalizeCookie(tasks[t].cookie_value.s)

CookieWrites(t) ==
    {j \in OpsOf(t, "set") : tasks[t].ops[j].name = COOKIE_REGISTER}

C2_RejectReturns ==
    \A t \in DOMAIN tasks :
        (/\ CookieAnswered(t)
         /\ tasks[t].cookie_value.tag = "string"
         /\ CookieRead(t) = REJECT)
        => /\ tasks[t].pc = "done"
           /\ tasks[t].result = "ok"
           /\ OnlyCookieRead(t)
           /\ ~tasks[t].policy_called

\* C2 witness: a run has read the cookie "reject" and ended as REJECTED.
C2_Witness ==
    \E t \in DOMAIN tasks :
        /\ tasks[t].cookie_value.tag = "string"
        /\ CookieRead(t) = REJECT
        /\ tasks[t].outcome = "REJECTED"

\* The write of the .id register of every entry of the new PortAssignment
\* has been issued before request j of run t.
PortWritesIssuedBefore(t, j) ==
    \A k \in 1..Len(Kinds) :
        \A e \in 1..Len(tasks[t].new_ports[Kinds[k]]) :
            \E j2 \in 1..(j - 1) :
                tasks[t].ops[j2] =
                    SetOp(PortRegisterName(Kinds[k], tasks[t].new_ports[Kinds[k]][e][1]),
                          Natural16(tasks[t].new_ports[Kinds[k]][e][2]))

\* C3: in every run, the cookie write comes after the write of every port-ID
\* register of the new PortAssignment, when each of those writes has been
\* answered; only commands follow it, and no command is issued before it.
C3_CookieWrittenLast ==
    \A t \in DOMAIN tasks :
        /\ \A j \in CookieWrites(t) :
              /\ PortWritesIssuedBefore(t, j)
              /\ tasks[t].w = Cardinality(OpsOf(t, "set"))
              /\ tasks[t].w = 1 + Len(tasks[t].new_ports.pub) + Len(tasks[t].new_ports.sub)
                                + Len(tasks[t].new_ports.cln) + Len(tasks[t].new_ports.srv)
              /\ \A j2 \in (j + 1)..Len(tasks[t].ops) : tasks[t].ops[j2].op = "command"
        /\ \A j \in OpsOf(t, "command") : \E j2 \in CookieWrites(t) : j2 < j
        /\ \A j \in OpsOf(t, "set") : tasks[t].policy_called

\* C3 witness: a run with a non-empty new PortAssignment has written the
\* cookie and gone on to the end.
C3_Witness ==
    \E t \in DOMAIN tasks :
        /\ tasks[t].new_ports # EmptyAssignment
        /\ CookieWrites(t) # {}
        /\ tasks[t].outcome = "DONE"

\* C4 (as claimed): once a run has configured a node to the end with every
\* write confirmed, the remote cookie register holds the expected value and
\* every other run for that node that has its cookie answered ends at the
\* cookie check as ALREADY_CONFIGURED with the cookie read as its only request.
C4_ConfiguredStaysConfigured ==
    \A n \in configured :
        /\ RemoteRead(remote[n], COOKIE_REGISTER) = StringValue(expected_pnp_cookie)
        /\ CheckCookie(RemoteRead(remote[n], COOKIE_REGISTER), expected_pnp_cookie)
              = "ALREADY_CONFIGURED"
        /\ \A t \in DOMAIN tasks :
              (/\ tasks[t].node = n
               /\ ~tasks[t].must_cancel
               /\ tasks[t].outcome # "DONE"
               /\ CookieAnswered(t))
              => /\ tasks[t].outcome = "ALREADY_CONFIGURED"
                 /\ OnlyCookieRead(t)

\* C5: a run in which the cookie read, a list request or a port-ID read got
\* no response has ended with NetworkTimeoutError and has issued no register
\* write and no command.
C5_ReadTimeoutAborts ==
    \A t \in DOMAIN tasks :
        tasks[t].no_response \in {"cookie", "list", "read"}
        => /\ tasks[t].pc = "done"
           /\ tasks[t].result = "NetworkTimeoutError"
           /\ OpsOf(t, "set") = {}
           /\ OpsOf(t, "command") = {}

\* C5 witness: a port-ID read got no response after the enumeration and an
\* earlier read were answered.
C5_Witness ==
    \E t \in DOMAIN tasks :
        /\ tasks[t].no_response = "read"
        /\ tasks[t].k = 2
        /\ tasks[t].result = "NetworkTimeoutError"

\* A run that can still execute: not done and not cancelled.
Active(t) == tasks[t].pc # "done" /\ ~tasks[t].must_cancel

\* C6: for every node at most one run is active, and an active run is the
\* one tracked in alloc_tasks for its node.
C6_OneRunPerNode ==
    \A t1 \in DOMAIN tasks :
        Active(t1)
        => /\ DictHas(alloc_tasks, tasks[t1].node)
           /\ DictGet(alloc_tasks, tasks[t1].node) = t1
           /\ \A t2 \in DOMAIN tasks :
                 (Active(t2) /\ tasks[t2].node = tasks[t1].node) => t2 = t1

\* C6 witness: a node has a new active run while its earlier, cancelled run
\* has not yet been resumed with the cancellation.
C6_Witness ==
    \E t1 \in DOMAIN tasks, t2 \in DOMAIN tasks :
        /\ tasks[t1].node = tasks[t2].node
        /\ tasks[t1].must_cancel /\ tasks[t1].pc = "write"
        /\ Active(t2) /\ tasks[t2].pc = "list"

\* C7: from the step that cancels it, a run issues no further request, and
\* the step that ends it leaves the remote store as it is, or as the write
\* it had already requested makes it.
C7_NoRequestAfterCancel ==
    [][\A t \in DOMAIN tasks :
          tasks[t].must_cancel
          => /\ t \in DOMAIN tasks' => tasks'[t].ops = tasks[t].ops
             /\ t \notin DOMAIN tasks'
                => \/ remote' = remote
                   \/ /\ tasks[t].pc = "write"
                      /\ remote' = [remote EXCEPT ![tasks[t].node] =
                            RemoteWrite(@, tasks[t].final_registers[tasks[t].w][1],
                                        tasks[t].final_registers[tasks[t].w][2], TRUE)]]_vars

\* C7 witness: a run is cancelled while suspended at its second register
\* write, with a third still to come.
C7_Witness ==
    \E t \in DOMAIN tasks :
        /\ tasks[t].must_cancel
        /\ tasks[t].pc = "write"
        /\ tasks[t].w = 2
        /\ Len(tasks[t].final_registers) = 3

\* C8 (as claimed): every extracted port name has no leading or trailing
\* separator, and the register name rebuilt from it for the port-ID read is
\* one of the enumerated register names.
C8_ExtractedNameRoundTrip ==
    \A t \in DOMAIN tasks :
        \A k \in 1..Len(tasks[t].to_read) :
            LET p == tasks[t].to_read[k]
            IN  /\ p.name # <<>>
                /\ Head(p.name) # "."
                /\ p.name[Len(p.name)] # "."
                /\ \E j \in 1..Len(tasks[t].available_registers) :
                      tasks[t].available_registers[j] = PortRegisterName(p.kind, p.name)

\* C9: a run whose cookie read is answered with a value that is not a
\* string has returned normally as NOT_CAPABLE with that read as its only
\* request.
C9_NotCapableReturns ==
    \A t \in DOMAIN tasks :
        (CookieAnswered(t) /\ tasks[t].cookie_value.tag # "string")
        => /\ tasks[t].pc = "done"
           /\ tasks[t].result = "ok"
           /\ tasks[t].outcome = "NOT_CAPABLE"
           /\ OnlyCookieRead(t)

\* C9 witness: the cookie register of the node holds a natural16.
C9_Witness ==
    \E t \in DOMAIN tasks :
        /\ tasks[t].cookie_value.tag = "natural16"
        /\ tasks[t].outcome = "NOT_CAPABLE"

\* C10: after a write answered with another value than the one intended, the
\* run has gone on: the next write, or after the last write the persist
\* command, has been issued, and a run that has ended has ended normally with
\* every register of final_registers written and both commands issued, unless
\* a later write got no response.
C10_MismatchNotFatal ==
    \A t \in DOMAIN tasks :
        \A m \in tasks[t].mismatched :
            /\ m < Len(tasks[t].final_registers)
               => \E j \in OpsOf(t, "set") :
                     tasks[t].ops[j] = SetOp(tasks[t].final_registers[m + 1][1],
                                             tasks[t].final_registers[m + 1][2])
            /\ m = Len(tasks[t].final_registers)
               => \E j \in OpsOf(t, "command") :
                     tasks[t].ops[j] = CommandOp("STORE_PERSISTENT_STATES")
            /\ tasks[t].pc = "done"
               => \/ tasks[t].no_response = "write"
                  \/ /\ tasks[t].result = "ok"
                     /\ Cardinality(OpsOf(t, "set")) = Len(tasks[t].final_registers)
                     /\ \E j \in OpsOf(t, "command") :
                           tasks[t].ops[j] = CommandOp("RESTART")

\* C10 witness: a run whose first of three writes was answered with another
\* value has ended normally.
C10_Witness ==
    \E t \in DOMAIN tasks :
        /\ 1 \in tasks[t].mismatched
        /\ Len(tasks[t].final_registers) = 3
        /\ tasks[t].outcome = "DONE"

\* C11: a run in which a register write got no response has ended with
\* NetworkTimeoutError at that write: the unanswered write is its last
\* request, it was requested once, no command follows, and when it is the
\* write of a port-ID register the run has requested no cookie write.
C11_WriteTimeoutAborts ==
    \A t \in DOMAIN tasks :
        tasks[t].no_response = "write"
        => /\ tasks[t].pc = "done"
           /\ tasks[t].result = "NetworkTimeoutError"
           /\ tasks[t].ops[Len(tasks[t].ops)] =
                 SetOp(tasks[t].final_registers[tasks[t].w][1],
                       tasks[t].final_registers[tasks[t].w][2])
           /\ Cardinality(OpsOf(t, "set")) = tasks[t].w
           /\ OpsOf(t, "command") = {}
           /\ tasks[t].w < Len(tasks[t].final_registers) => CookieWrites(t) = {}

\* C11 witness: the second of two port-ID writes got no response, the first
\* having been answered.
C11_Witness ==
    \E t \in DOMAIN tasks :
        /\ tasks[t].no_response = "write"
        /\ tasks[t].w = 2
        /\ Len(tasks[t].final_registers) = 3
        /\ tasks[t].result = "NetworkTimeoutError"

\* The requests of run t from the one after its last register write on.
OpsAfterWrites(t) ==
    LET sets == OpsOf(t, "set")
        last == CHOOSE j \in sets : \A j2 \in sets : j2 <= j
    IN  SubSeq(tasks[t].ops, last + 1, Len(tasks[t].ops))

\* Every register of final_registers has been written and answered in run t.
WritesOver(t) ==
    /\ tasks[t].final_registers # <<>>
    /\ tasks[t].w = Len(tasks[t].final_registers)
    /\ tasks[t].pc # "write"
    /\ tasks[t].no_response # "write"

\* C12: a run whose writes are over, mismatched or not, has issued the
\* persist command right after the last write; once the persist command is no
\* longer pending the restart command follows it, answered or not; nothing
\* else is issued, and the run that has passed the restart command, answered
\* or not, has ended normally.
C12_PersistThenRestart ==
    \A t \in DOMAIN tasks :
        /\ WritesOver(t)
           => /\ OpsAfterWrites(t) # <<>>
              /\ OpsAfterWrites(t)[1] = CommandOp("STORE_PERSISTENT_STATES")
              /\ tasks[t].pc # "persist"
                 => OpsAfterWrites(t) = <<CommandOp("STORE_PERSISTENT_STATES"),
                                          CommandOp("RESTART")>>
              /\ tasks[t].pc \in {"persist", "restart", "done"}
              /\ tasks[t].pc = "done"
                 => tasks[t].result = "ok" /\ tasks[t].outcome = "DONE"
        /\ OpsOf(t, "command") # {} => WritesOver(t)
        /\ tasks[t].unanswered # {} => WritesOver(t)
        /\ "restart" \in tasks[t].unanswered => tasks[t].pc = "done"

\* C12 witness: a run with an empty new PortAssignment, whose only write (the
\* cookie) was mismatched and whose two commands both got no response, has
\* ended normally.
C12_Witness ==
    \E t \in DOMAIN tasks :
        /\ tasks[t].new_ports = EmptyAssignment
        /\ tasks[t].mismatched = {1}
        /\ tasks[t].unanswered = {"persist", "restart"}
        /\ tasks[t].outcome = "DONE"

\* C17 (as claimed): with allocate_services wired in as the policy, a run that
\* has ended, was not cancelled, had every request answered and read a string
\* cookie other than the expected one and "reject" has called the policy, has
\* written the cookie after the registers, has issued persist and restart and
\* has ended without an error.
C17_WiredRunConfigures ==
    \A t \in DOMAIN tasks :
        (/\ service_allocator = "allocate_services"
         /\ CookieAnswered(t)
         /\ CheckCookie(tasks[t].cookie_value, expected_pnp_cookie) = "NEEDS_CONFIG"
         /\ tasks[t].no_response = ""
         /\ ~tasks[t].must_cancel
         /\ tasks[t].pc = "done")
        => /\ tasks[t].policy_called
           /\ tasks[t].result = "ok"
           /\ tasks[t].outcome = "DONE"
           /\ CookieWrites(t) # {}
           /\ \E j \in OpsOf(t, "command") : tasks[t].ops[j] = CommandOp("RESTART")

\* C18: an online event for a node that is not in alloc_tasks can be taken
\* and starts a new run, tracked for that node; an online event for a node
\* that is in alloc_tasks, its run finished or not, changes neither the runs
\* nor alloc_tasks; and no step creates a run for a node that is tracked.
C18_OnlineStartsIffUntracked ==
    /\ [](\A n \in Nodes :
             (main_alive /\ ~DictHas(alloc_tasks, n) /\ created < MaxTasks)
             => ENABLED (NodeOnline(n) /\ DictHas(alloc_tasks', n)))
    /\ [][/\ \A n \in Nodes :
                NodeOnline(n)
                => IF DictHas(alloc_tasks, n)
                   THEN tasks' = tasks /\ alloc_tasks' = alloc_tasks
                   ELSE \E t \in DOMAIN tasks' \ DOMAIN tasks :
                           /\ tasks' = tasks @@ (t :> NewTask(n))
                           /\ alloc_tasks' = DictSet(alloc_tasks, n, t)
          /\ \A t \in DOMAIN tasks' \ DOMAIN tasks :
                /\ ~DictHas(alloc_tasks, tasks'[t].node)
                /\ DictGet(alloc_tasks', tasks'[t].node) = t]_vars

\* C18 witness: the first run of a node ended with an error and was swept,
\* and the next online event of the node has started its second run.
C18_Witness ==
    \E n \in swept_failed :
        /\ created = 2
        /\ DictHas(alloc_tasks, n)
        /\ DictGet(alloc_tasks, n) = 2
        /\ tasks[2].node = n
        /\ \A n2 \in Nodes \ {n} : ~DictHas(alloc_tasks, n2) /\ n2 \notin swept_failed

\* The entry of node n in alloc_tasks and the run it refers to are the same
\* before and after the step.
EntryUnchanged(n) ==
    /\ DictHas(alloc_tasks', n) = DictHas(alloc_tasks, n)
    /\ DictHas(alloc_tasks, n)
       => /\ DictGet(alloc_tasks', n) = DictGet(alloc_tasks, n)
          /\ DictGet(alloc_tasks, n) \in DOMAIN tasks'
          /\ tasks'[DictGet(alloc_tasks, n)] = tasks[DictGet(alloc_tasks, n)]

\* C19: an offline event can always be taken and leaves the supervisor
\* running. For a tracked node it removes the entry and cancels the run (a
\* run that is not finished has its cancellation requested and is otherwise
\* as it was; a finished one is only dropped); for an untracked node it
\* changes nothing. The entries and runs of every other node are unchanged.
C19_OfflineCancelsOnlyThatNode ==
    /\ [](\A n \in Nodes : main_alive => ENABLED (NodeOffline(n) /\ main_alive'))
    /\ [][\A n \in Nodes :
             NodeOffline(n)
             => /\ main_alive'
                /\ ~DictHas(alloc_tasks', n)
                /\ \A n2 \in Nodes \ {n} : EntryUnchanged(n2)
                /\ IF DictHas(alloc_tasks, n)
                   THEN LET t == DictGet(alloc_tasks, n)
                        IN  /\ tasks[t].pc # "done"
                               => /\ t \in DOMAIN tasks'
                                  /\ tasks'[t] = [tasks[t] EXCEPT !.must_cancel = TRUE]
                            /\ tasks[t].pc = "done" => t \notin DOMAIN tasks'
                            /\ \A t2 \in DOMAIN tasks \ {t} :
                                  t2 \in DOMAIN tasks' /\ tasks'[t2] = tasks[t2]
                   ELSE tasks' = tasks /\ alloc_tasks' = alloc_tasks]_vars

\* C19 witness: the run of a node has been cancelled by an offline event, its
\* entry is gone, and the other node has a tracked run in progress.
C19_Witness ==
    \E t \in DOMAIN tasks, n2 \in Nodes :
        /\ tasks[t].must_cancel
        /\ tasks[t].pc = "list"
        /\ ~DictHas(alloc_tasks, tasks[t].node)
        /\ n2 # tasks[t].node
        /\ DictHas(alloc_tasks, n2)
        /\ Active(DictGet(alloc_tasks, n2))

\* C20: a sweep can always be taken; it removes the entry of every node whose
\* tracked run has finished, normally or with an error, leaves every other
\* entry and every run in progress as it was, and leaves the supervisor
\* running.
C20_SweepRemovesFinishedOnly ==
    /\ [](main_alive => ENABLED (Sweep /\ main_alive'))
    /\ [][Sweep
          => /\ main_alive'
             /\ \A n \in Nodes :
                   IF DictHas(alloc_tasks, n) /\ tasks[DictGet(alloc_tasks, n)].pc = "done"
                   THEN ~DictHas(alloc_tasks', n)
                   ELSE EntryUnchanged(n)
             /\ \A t \in DOMAIN tasks :
                   tasks[t].pc # "done" => t \in DOMAIN tasks' /\ tasks'[t] = tasks[t]]_vars

\* C20 witness: the second run, of one node, ended with an error and was
\* swept while the first run, of the other node, was and still is in
\* progress; the supervisor is running.
C20_Witness ==
    \E n \in swept_failed, n2 \in Nodes :
        /\ n # n2
        /\ created = 2
        /\ ~DictHas(alloc_tasks, n)
        /\ DictHas(alloc_tasks, n2)
        /\ DictGet(alloc_tasks, n2) = 1
        /\ Active(1)
        /\ main_alive

(***************************************************************************)
(* Properties of the resolvers.                                            *)
(***************************************************************************)
\* The positions of the dots of a port name, its first and its second dot.
Dots(pn) == {k \in 1..Len(pn) : pn[k] = "."}

FirstDot(pn) == CHOOSE k \in Dots(pn) : \A j \in Dots(pn) : k <= j

SecondDot(pn) ==
    CHOOSE k \in Dots(pn) \ {FirstDot(pn)} : \A j \in Dots(pn) \ {FirstDot(pn)} : k <= j

\* The parts of a port name in heuristic mode, read off the positions of its
\* dots: the text before the first dot, the text between the first two dots,
\* and all that follows.
ServiceOf(pn) == IF Dots(pn) = {} THEN <<>> ELSE SubSeq(pn, 1, FirstDot(pn) - 1)

InstanceOf(pn) ==
    IF Cardinality(Dots(pn)) < 2 THEN <<>>
    ELSE SubSeq(pn, FirstDot(pn) + 1, SecondDot(pn) - 1)

SuffixOf(pn) ==
    IF Dots(pn) = {} THEN pn
    ELSE IF Cardinality(Dots(pn)) = 1 THEN SubSeq(pn, FirstDot(pn) + 1, Len(pn))
    ELSE SubSeq(pn, SecondDot(pn) + 1, Len(pn))

\* The elements of a sequence in the order of their first occurrence.
RECURSIVE FirstOccurrences(_)
FirstOccurrences(s) ==
    IF s = <<>> THEN <<>>
    ELSE LET front == FirstOccurrences(SubSeq(s, 1, Len(s) - 1))
             last == s[Len(s)]
         IN  IF \E k \in 1..Len(front) : front[k] = last THEN front ELSE Append(front, last)

\* The port names of the call in the order they are scanned.
Scanned == resolver.pub \o resolver.sub \o resolver.cln \o resolver.srv

\* C13: in the result of detect_service_instances the service keys are the
\* services of the scanned names (pub, sub, cln, srv) in first-encounter
\* order, the instance keys of a service are the instances of its names in
\* first-encounter order, and the suffix keys of one kind of one instance are
\* the suffixes of its names in first-encounter order in the list of that kind.
C13_DetectOrder ==
    resolver.phase = "detected"
    => /\ DictKeys(resolver.result) =
             FirstOccurrences([k \in 1..Len(Scanned) |-> ServiceOf(Scanned[k])])
       /\ \A i \in 1..Len(resolver.result) :
             LET svc == resolver.result[i][1]
                 instances == resolver.result[i][2]
                 names == SelectSeq(Scanned, LAMBDA pn : ServiceOf(pn) = svc)
             IN  /\ DictKeys(instances) =
                       FirstOccurrences([k \in 1..Len(names) |-> InstanceOf(names[k])])
                 /\ \A j \in 1..Len(instances), kd \in 1..Len(Kinds) :
                       LET ins == instances[j][1]
                           ports == SelectSeq(resolver[Kinds[kd]],
                                       LAMBDA pn : ServiceOf(pn) = svc /\ InstanceOf(pn) = ins)
                       IN  DictKeys(instances[j][2][Kinds[kd]]) =
                              FirstOccurrences([k \in 1..Len(ports) |-> SuffixOf(ports[k])])

\* C13 witness: service "b" is met first, among the publishers, and service
\* "a" among the subscribers, its instance "b" before its unnamed instance.
C13_Witness ==
    /\ resolver.phase = "detected"
    /\ resolver.pub = << <<"b", ".", "x">> >>
    /\ resolver.sub = << <<"a", ".", "b", ".", "x">>, <<"a", ".", "x">> >>
    /\ DictKeys(resolver.result) = << <<"b">>, <<"a">> >>
    /\ DictKeys(DictGet(resolver.result, <<"a">>)) = << <<"b">>, <<>> >>

\* The entries of a grouped result: [svc, ins, kind, suf, port] for every
\* suffix key of every kind of every instance of every service.
Entries(res) ==
    {[svc |-> res[i][1], ins |-> res[i][2][j][1], kind |-> Kinds[kd],
      suf |-> res[i][2][j][2][Kinds[kd]][e][1],
      port |-> res[i][2][j][2][Kinds[kd]][e][2]] :
        <<i, j, kd, e>> \in
            {x \in (1..Len(res)) \X (1..MaxPorts) \X (1..Len(Kinds)) \X (1..MaxPorts) :
                /\ x[2] <= Len(res[x[1]][2])
                /\ x[4] <= Len(res[x[1]][2][x[2]][2][Kinds[x[3]]])}}

\* C14: in the result of detect_service_instances every port name of every
\* kind is found under (text before its first dot or "", text between its
\* first two dots or "", all the rest) and every entry is such: its value is
\* a full port name of that kind's list and its keys are the parts of that name.
C14_DetectSplit ==
    resolver.phase = "detected"
    => /\ \A kd \in 1..Len(Kinds) :
             \A k \in 1..Len(resolver[Kinds[kd]]) :
                LET pn == resolver[Kinds[kd]][k]
                IN  \E en \in Entries(resolver.result) :
                       /\ en.kind = Kinds[kd]
                       /\ en.svc = ServiceOf(pn)
                       /\ en.ins = InstanceOf(pn)
                       /\ en.suf = SuffixOf(pn)
       /\ \A en \in Entries(resolver.result) :
             /\ \E k \in 1..Len(resolver[en.kind]) : resolver[en.kind][k] = en.port
             /\ en.svc = ServiceOf(en.port)
             /\ en.ins = InstanceOf(en.port)
             /\ en.suf = SuffixOf(en.port)

\* C14 witness: a name of four parts, a name of two parts and a name without
\* a dot have been split.
C14_Witness ==
    /\ resolver.phase = "detected"
    /\ resolver.pub = << <<"a", ".", "b", ".", "x", ".", "y">>, <<"a", ".", "x">>, <<"c">> >>
    /\ resolver.result =
          << << <<"a">>,
                << << <<"b">>, [PortSuffixMapping EXCEPT
                                  !.pub = << << <<"x", ".", "y">>,
                                                <<"a", ".", "b", ".", "x", ".", "y">> >> >>] >>,
                   << <<>>, [PortSuffixMapping EXCEPT
                               !.pub = << << <<"x">>, <<"a", ".", "x">> >> >>] >> >> >>,
             << <<>>,
                << << <<>>, [PortSuffixMapping EXCEPT
                               !.pub = << << <<"c">>, <<"c">> >> >>] >> >> >> >>

\* The instance prefixes registered for a service, dots at the ends dropped.
RegisteredInstances(reg, svc) ==
    UNION { {StripDots(reg[i][2][j]) : j \in 1..Len(reg[i][2])} :
            i \in {x \in 1..Len(reg) : reg[x][1] = svc} }

\* C15: every entry of the result of discover_service_instances is a port
\* name of that kind's list with exactly one dot, whose text before the dot
\* is the instance key and an instance prefix registered for the service
\* key, and whose text after the dot is the suffix key; so a name of one
\* part or of three and more is in no service, and the call gives a result
\* whatever names it is given.
C15_DiscoverTwoPartsOnly ==
    resolver.phase = "discovered"
    => /\ \A en \in Entries(resolver.result) :
             /\ \E k \in 1..Len(resolver[en.kind]) : resolver[en.kind][k] = en.port
             /\ Cardinality(Dots(en.port)) = 1
             /\ en.ins = SubSeq(en.port, 1, FirstDot(en.port) - 1)
             /\ en.suf = SubSeq(en.port, FirstDot(en.port) + 1, Len(en.port))
             /\ en.ins \in RegisteredInstances(resolver.service_instance_prefixes, en.svc)
       /\ \A i \in 1..Len(resolver.result) :
             \E j \in 1..Len(resolver.service_instance_prefixes) :
                resolver.service_instance_prefixes[j][1] = resolver.result[i][1]

\* C15 witness: with "a" registered, "a.b.x" (three parts) and "c" (one
\* part) are left out and "a.x" is kept.
C15_Witness ==
    /\ resolver.phase = "discovered"
    /\ resolver.service_instance_prefixes = << <<PITOT, << <<"a">> >> >> >>
    /\ resolver.pub = << <<"a", ".", "b", ".", "x">>, <<"c">>, <<"a", ".", "x">> >>
    /\ resolver.result =
          << <<PITOT, << << <<"a">>, [PortSuffixMapping EXCEPT
                                        !.pub = << << <<"x">>, <<"a", ".", "x">> >> >>] >> >> >> >>

\* The (service, instance) pairs of a registry in its own order: its entries
\* in order, the prefixes of an entry in list order, dots at the ends dropped.
RECURSIVE RegistryPairs(_)
RegistryPairs(reg) ==
    IF reg = <<>> THEN <<>>
    ELSE [j \in 1..Len(Head(reg)[2]) |-> <<Head(reg)[1], StripDots(Head(reg)[2][j])>>]
         \o RegistryPairs(Tail(reg))

\* The port name has the shape instance.suffix with that instance.
MatchesInstance(pn, ins) ==
    Cardinality(Dots(pn)) = 1 /\ SubSeq(pn, 1, FirstDot(pn) - 1) = ins

\* The pairs met when the port names are scanned one after the other.
RECURSIVE PairsByPort(_, _)
PairsByPort(reg, port_names) ==
    IF port_names = <<>> THEN <<>>
    ELSE SelectSeq(RegistryPairs(reg), LAMBDA p : MatchesInstance(Head(port_names), p[2]))
         \o PairsByPort(reg, Tail(port_names))

\* The pairs met when, kind after kind, the registry is scanned and each
\* pair is looked up among the port names of the kind.
PairsByRegistry(reg, kind) ==
    SelectSeq(RegistryPairs(reg),
              LAMBDA p : \E k \in 1..Len(resolver[kind]) :
                            MatchesInstance(resolver[kind][k], p[2]))

\* The keys of a grouped result are those of the pairs, in first-encounter order.
KeysFollow(res, pairs) ==
    /\ DictKeys(res) = FirstOccurrences([k \in 1..Len(pairs) |-> pairs[k][1]])
    /\ \A i \in 1..Len(res) :
          LET mine == SelectSeq(pairs, LAMBDA p : p[1] = res[i][1])
          IN  DictKeys(res[i][2]) = FirstOccurrences([k \in 1..Len(mine) |-> mine[k][2]])

\* C16 (as claimed): the service keys and the instance keys of the result of
\* discover_service_instances are in the order in which the port names, pub
\* then sub then cln then srv, first meet them, whatever the order of the
\* registry.
C16_DiscoverOrderMirrorsPorts ==
    resolver.phase = "discovered"
    => KeysFollow(resolver.result, PairsByPort(resolver.service_instance_prefixes, Scanned))

\* C16 (amended): the service keys and the instance keys of the result of
\* discover_service_instances are in first-encounter order of a scan that
\* goes kind after kind (pub, sub, cln, srv) and, within a kind, through the
\* registry in its own order, keeping the pairs that a port name of the kind
\* matches: among the pairs met in one kind the registry order decides.
C16_DiscoverOrderFollowsRegistry ==
    resolver.phase = "discovered"
    => KeysFollow(resolver.result,
                  PairsByRegistry(resolver.service_instance_prefixes, "pub")
                  \o PairsByRegistry(resolver.service_instance_prefixes, "sub")
                  \o PairsByRegistry(resolver.service_instance_prefixes, "cln")
                  \o PairsByRegistry(resolver.service_instance_prefixes, "srv"))

\* C16 witness: the publishers name "b.x" before "a.x", the registry has the
\* service of "a" before the service of "b", and so has the result.
C16_Witness ==
    /\ resolver.phase = "discovered"
    /\ resolver.service_instance_prefixes =
          << <<PITOT, << <<"a">> >> >>, <<SERVO, << <<"b">> >> >> >>
    /\ resolver.pub = << <<"b", ".", "x">>, <<"a", ".", "x">> >>
    /\ resolver.sub = <<>> /\ resolver.cln = <<>> /\ resolver.srv = <<>>
    /\ DictKeys(resolver.result) = <<PITOT, SERVO>>

(***************************************************************************)
(* Properties of the enumeration, of the policy and of the tracked runs.   *)
(***************************************************************************)
\* The indices of the list requests of run t, in the order they were issued.
ListIndices(t) ==
    LET lists == SelectSeq(tasks[t].ops, LAMBDA o : o.op = "list")
    IN  [j \in 1..Len(lists) |-> lists[j].index]

\* The names the remote of run t gives at the indices 0 .. n - 1.
NamesBefore(t, n) == [j \in 1..n |-> RemoteList(remote[tasks[t].node], j - 1)]

\* C21: the list requests of a run carry the indices 0, 1, 2, ... in that
\* order. While the run enumerates, the names it holds are those the remote
\* gave at the indices before the pending one, none of them empty. A run that
\* is past the enumeration either got no response to its last list request
\* and ended with NetworkTimeoutError, or got the empty name at its last
\* index; in both cases it holds exactly the names given before that index.
\* With a remote of finitely many registers the requests are at most one
\* more than its registers.
C21_EnumerationInOrder ==
    \A t \in DOMAIN tasks :
        LET n == Len(ListIndices(t))
        IN  /\ ListIndices(t) = [j \in 1..n |-> j - 1]
            /\ n <= Len(remote[tasks[t].node]) + 1
            /\ n > 0
               => /\ tasks[t].available_registers = NamesBefore(t, n - 1)
                  /\ \A j \in 1..(n - 1) : tasks[t].available_registers[j] # <<>>
            /\ tasks[t].pc = "list" => n = tasks[t].i + 1
            /\ (n > 0 /\ tasks[t].pc # "list")
               => \/ /\ tasks[t].no_response = "list"
                     /\ tasks[t].pc = "done"
                     /\ tasks[t].result = "NetworkTimeoutError"
                  \/ /\ tasks[t].no_response # "list"
                     /\ RemoteList(remote[tasks[t].node], n - 1) = <<>>

\* C21 witness: a run has enumerated a remote of three registers with four
\* list requests and has gone on to read the port identifiers.
C21_Witness ==
    \E t \in DOMAIN tasks :
        /\ Len(remote[tasks[t].node]) = 3
        /\ Len(tasks[t].available_registers) = 3
        /\ ListIndices(t) = <<0, 1, 2, 3>>
        /\ tasks[t].pc = "read"

\* C26: every run that alloc_tasks refers to exists and has not been
\* cancelled: it is running, or finished normally or with an error other
\* than CancelledError; and the supervisor is running, that is, no sweep has
\* met the result of a cancelled run.
C26_NoCancelledRunTracked ==
    /\ main_alive
    /\ \A k \in 1..Len(alloc_tasks) :
          LET t == alloc_tasks[k][2]
          IN  /\ t \in DOMAIN tasks
              /\ ~tasks[t].must_cancel
              /\ tasks[t].result # "CancelledError"
              /\ tasks[t].node = alloc_tasks[k][1]

\* C26 witness: a node has a tracked run in progress while an earlier run of
\* the same node, cancelled by an offline event, has not yet ended.
C26_Witness ==
    \E t1 \in DOMAIN tasks, t2 \in DOMAIN tasks :
        /\ tasks[t1].node = tasks[t2].node
        /\ tasks[t1].must_cancel
        /\ tasks[t1].pc = "cookie"
        /\ ~Tracked(t1)
        /\ Tracked(t2)
        /\ tasks[t2].pc = "cookie"

\* The entries of one kind of the result whose value is the port name.
EntriesOf(kind, pn) ==
    {en \in Entries(resolver.result) : en.kind = kind /\ en.port = pn}

\* The name has a dot and no service part, or two dots and no instance part
\* between the first two.
EmptyPart(pn) ==
    \/ Dots(pn) # {} /\ ServiceOf(pn) = <<>>
    \/ Cardinality(Dots(pn)) >= 2 /\ InstanceOf(pn) = <<>>

\* C22 as stated: in the result of detect_service_instances every port name
\* of every kind's list is the value of exactly one entry of that kind.
C22_DetectLosesNoPort ==
    resolver.phase = "detected"
    => \A kd \in 1..Len(Kinds) :
          \A k \in 1..Len(resolver[Kinds[kd]]) :
             Cardinality(EntriesOf(Kinds[kd], resolver[Kinds[kd]][k])) = 1

\* C22: when no name of a kind's list has an empty service part before a dot
\* or an empty instance part between its first two dots, every port name of
\* that list is the value of exactly one entry of that kind in the result of
\* detect_service_instances, and no two distinct names of the list have the
\* same (service, instance, suffix).
C22_DetectLosesNoWellFormedPort ==
    resolver.phase = "detected"
    => \A kd \in 1..Len(Kinds) :
          LET names == resolver[Kinds[kd]]
          IN  (\A k \in 1..Len(names) : ~EmptyPart(names[k]))
              => /\ \A k \in 1..Len(names) :
                       Cardinality(EntriesOf(Kinds[kd], names[k])) = 1
                 /\ \A j \in 1..Len(names), k \in 1..Len(names) :
                       (/\ ServiceOf(names[j]) = ServiceOf(names[k])
                        /\ InstanceOf(names[j]) = InstanceOf(names[k])
                        /\ SuffixOf(names[j]) = SuffixOf(names[k]))
                       => names[j] = names[k]

\* C22 witness: three distinct publisher names of the same service, with one,
\* two and three dots, have been resolved, and each is a value of the result.
C22_Witness ==
    /\ resolver.phase = "detected"
    /\ resolver.pub = << <<"a", ".", "x">>, <<"a", ".", "b", ".", "x">>,
                         <<"a", ".", "b", ".", "x", ".", "y">> >>
    /\ \A k \in 1..3 : Cardinality(EntriesOf("pub", resolver.pub[k])) = 1

(***************************************************************************)
(* The allocation policy on its own: invocations of allocate_services with *)
(* the three arguments of its signature, by runs for the remote nodes.     *)
(***************************************************************************)
\* <instance>.<suffix>
PortOf(ins, suf) == ins \o <<".">> \o suf

\* A PortAssignment as read from a remote node: no port has an ID yet.
Unassigned(pub, sub) ==
    [EmptyAssignment EXCEPT
        !.pub = [k \in 1..Len(pub) |-> <<pub[k], PORT_ID_UNSET>>],
        !.sub = [k \in 1..Len(sub) |-> <<sub[k], PORT_ID_UNSET>>]]

\* Remote nodes with pitot instances "p" and "q" and servo instances "s" and
\* "t", complete or lacking a port.
RemotePorts ==
    LET p_dp == PortOf(<<"p">>, DIFFERENTIAL_PRESSURE)
        p_temp == PortOf(<<"p">>, STATIC_AIR_TEMPERATURE)
        q_dp == PortOf(<<"q">>, DIFFERENTIAL_PRESSURE)
        s_dyn == PortOf(<<"s">>, DYNAMICS)
        t_dyn == PortOf(<<"t">>, DYNAMICS)
        s_sp == PortOf(<<"s">>, SETPOINT)
        t_sp == PortOf(<<"t">>, SETPOINT)
    IN  { Unassigned(<<>>, <<>>),
          Unassigned(<<p_dp, p_temp, q_dp>>, <<>>),
          Unassigned(<<p_temp, q_dp, s_dyn, t_dyn>>, <<t_sp>>),
          Unassigned(<<s_dyn, t_dyn>>, <<s_sp, t_sp>>),
          Unassigned(<<p_dp, s_dyn>>, <<s_sp>>) }

\* service_instance_prefixes of the invocations.
InstancePrefixes ==
    { <<<<PITOT, <<<<"p">>, <<"q">>>>>>, <<SERVO, <<<<"s">>, <<"t">>>>>>>> }

\* The port IDs of an assignment.
AssignedIds(final) ==
    UNION {{final[Kinds[kd]][e][2] : e \in 1..Len(final[Kinds[kd]])} : kd \in 1..Len(Kinds)}

\* A run of perform_automatic_port_id_allocation for the node invokes the
\* policy; the node has no run in progress.
AllocateServices(remote_node_id) ==
    /\ ~(invocation.remote_node_id = remote_node_id /\ invocation.run = "running")
    /\ \E service_instance_prefixes \in InstancePrefixes, ports \in RemotePorts :
          \E r \in {allocate_services(remote_node_id, service_instance_prefixes, ports)} :
          LET final == IF r.raised = "" THEN r.final ELSE EmptyAssignment
          IN  /\ airspeed' = r.airspeed
              /\ servo' = r.servo
              /\ registry' = r.registry
              /\ invocation' =
                    [remote_node_id |-> remote_node_id,
                     service_instance_prefixes |-> service_instance_prefixes,
                     ports |-> ports, airspeed |-> airspeed, servo |-> servo,
                     final |-> final, raised |-> r.raised,
                     run |-> IF r.raised = "" THEN "running" ELSE r.raised,
                     previous |-> IF invocation.remote_node_id = remote_node_id
                                  THEN [run |-> invocation.run,
                                        ids |-> AssignedIds(invocation.final)]
                                  ELSE [run |-> "", ids |-> {}]]
              /\ issued' = [id \in PortIds |->
                               IF id \in AssignedIds(final)
                               THEN Append(issued[id], remote_node_id) ELSE issued[id]]
    /\ UNCHANGED <<expected_pnp_cookie, service_allocator, remote, tasks, created,
                   alloc_tasks, main_alive, configured, swept_failed, resolver>>

\* Faulty variant: a run that fails gives back the slots its invocation filled.
RunEndsReleasesSlots ==
    /\ invocation.run = "running"
    /\ \E result \in {"NetworkTimeoutError", "CancelledError"} :
          invocation' = [invocation EXCEPT !.run = result]
    /\ airspeed' = [i \in 1..Len(airspeed) |->
                        IF invocation.airspeed[i] = None THEN None ELSE airspeed[i]]
    /\ servo' = [i \in 1..Len(servo) |->
                     IF invocation.servo[i] = None THEN None ELSE servo[i]]
    /\ UNCHANGED <<expected_pnp_cookie, service_allocator, remote, tasks, created,
                   alloc_tasks, main_alive, configured, swept_failed, resolver,
                   registry, issued>>

\* The run that invoked the policy fails after the invocation: a register
\* write is not answered, or the node goes offline and the run is cancelled.
RunEnds ==
    /\ invocation.run = "running"
    /\ \E result \in {"NetworkTimeoutError", "CancelledError"} :
          invocation' = [invocation EXCEPT !.run = result]
    /\ UNCHANGED <<expected_pnp_cookie, service_allocator, remote, tasks, created,
                   alloc_tasks, main_alive, configured, swept_failed, resolver,
                   airspeed, servo, registry, issued>>

\* The slots filled at the start: instantiate_if_enabled finds the ports of
\* slot i configured in the registry of the local node.
Prefilled == {<<{}, {}>>, <<{0}, {1}>>}

AllocInit ==
    /\ expected_pnp_cookie = <<"a">>
    /\ service_allocator = "allocate_services"
    /\ remote = [n \in Nodes |-> <<>>]
    /\ tasks = <<>>
    /\ created = 0
    /\ alloc_tasks = <<>>
    /\ main_alive = FALSE
    /\ configured = {}
    /\ swept_failed = {}
    /\ resolver = NoResolverCall
    /\ invocation = NoInvocation
    /\ issued = [id \in PortIds |-> <<>>]
    /\ \E filled \in Prefilled :
          LET ra == {<<LocalRegister("sub", "airspd", i, "diff_pressure"), ID_DIFF_PRES_BASE + i>> :
                        i \in filled[1]}
              rd == {<<LocalRegister("sub", "servo", i, "dynamics"), ID_DYNAMICS_BASE + i>> :
                        i \in filled[2]}
              rs == {<<LocalRegister("pub", "servo", i, "setpoint"), ID_SETPOINT_BASE + i>> :
                        i \in filled[2]}
          IN  /\ registry \in {d \in [1..Cardinality(ra \cup rd \cup rs) -> ra \cup rd \cup rs] :
                                  \A j, k \in DOMAIN d : j < k => d[j][2] < d[k][2]}
              /\ airspeed = [i \in 1..2 |-> IF PortConfigured(registry,
                                                 LocalRegister("sub", "airspd", i - 1, "diff_pressure"))
                                            THEN AirspeedClient(registry, i - 1) ELSE None]
              /\ servo = [i \in 1..3 |-> IF /\ PortConfigured(registry,
                                                 LocalRegister("sub", "servo", i - 1, "dynamics"))
                                            /\ PortConfigured(registry,
                                                 LocalRegister("pub", "servo", i - 1, "setpoint"))
                                         THEN ServoClient(i - 1) ELSE None]

AllocNext ==
    \/ \E n \in Nodes : AllocateServices(n)
    \/ RunEnds

AllocSpec == AllocInit /\ [][AllocNext]_vars

\* What the latest invocation discovered on the remote node.
Discovered ==
    discover_service_instances(invocation.service_instance_prefixes,
        DictKeys(invocation.ports.pub), DictKeys(invocation.ports.sub),
        DictKeys(invocation.ports.cln), DictKeys(invocation.ports.srv))

\* The mappings of the discovered pitot instances that have a differential
\* pressure publisher, and of the discovered servo instances that have a
\* dynamics publisher and a setpoint subscriber, in the order of discovery.
AirspeedCandidates ==
    LET items == SelectSeq(ServiceItems(Discovered, PITOT),
                     LAMBDA it : DictHas(it[2].pub, DIFFERENTIAL_PRESSURE))
    IN  [j \in 1..Len(items) |-> items[j][2]]

ServoCandidates ==
    LET items == SelectSeq(ServiceItems(Discovered, SERVO),
                     LAMBDA it : DictHas(it[2].pub, DYNAMICS) /\ DictHas(it[2].sub, SETPOINT))
    IN  [j \in 1..Len(items) |-> items[j][2]]

\* The indices, counted from 0, of the free slots of a list, lowest first.
FreeSlots(slots) ==
    SelectSeq([i \in 1..Len(slots) |-> i - 1], LAMBDA i : slots[i + 1] = None)

Min(a, b) == IF a <= b THEN a ELSE b

\* The name is a key of the dict and its value is the ID.
Maps(d, name, id) == DictHas(d, name) /\ DictGet(d, name) = id

\* C23 as stated: an invocation of allocate_services returns normally, and
\* the assignment it returns maps the dynamics port of the j-th servo
\* instance that has both ports to 5000+k in pub and its setpoint port to
\* 5050+k in sub, and the differential pressure port of the j-th airspeed
\* instance to 6010+k in pub, k being the j-th slot that was free.
C23_FreeSlotAssigned ==
    invocation.remote_node_id # 0
    => /\ invocation.raised = ""
       /\ \A j \in 1..Min(Len(ServoCandidates), Len(FreeSlots(invocation.servo))) :
             LET k == FreeSlots(invocation.servo)[j]
                 psm == ServoCandidates[j]
             IN  /\ Maps(invocation.final.pub, DictGet(psm.pub, DYNAMICS), 5000 + k)
                 /\ Maps(invocation.final.sub, DictGet(psm.sub, SETPOINT), 5050 + k)
       /\ \A j \in 1..Min(Len(AirspeedCandidates), Len(FreeSlots(invocation.airspeed))) :
             LET k == FreeSlots(invocation.airspeed)[j]
                 psm == AirspeedCandidates[j]
             IN  Maps(invocation.final.pub, DictGet(psm.pub, DIFFERENTIAL_PRESSURE), 6010 + k)

\* How many ports an assignment gives an ID to.
AssignedCount(final) == Len(final.pub) + Len(final.sub) + Len(final.cln) + Len(final.srv)

\* The port names of an assignment.
AssignedNames(final) ==
    UNION {{final[Kinds[kd]][e][1] : e \in 1..Len(final[Kinds[kd]])} : kd \in 1..Len(Kinds)}

\* The port names of a mapping of a discovered instance.
PortsOf(psm) ==
    UNION {{psm[Kinds[kd]][e][2] : e \in 1..Len(psm[Kinds[kd]])} : kd \in 1..Len(Kinds)}

\* No ID has been returned twice, by one invocation or by two; and the
\* instances for which the latest invocation found no free slot have no port
\* in the assignment it returned.
C24_IdsAndOverflow ==
    /\ \A id \in PortIds : Len(issued[id]) <= 1
    /\ AssignedCount(invocation.final) = Cardinality(AssignedIds(invocation.final))
    /\ \A j \in 1..Len(AirspeedCandidates) :
          j > Len(FreeSlots(invocation.airspeed))
          => PortsOf(AirspeedCandidates[j]) \cap AssignedNames(invocation.final) = {}
    /\ \A j \in 1..Len(ServoCandidates) :
          j > Len(FreeSlots(invocation.servo))
          => PortsOf(ServoCandidates[j]) \cap AssignedNames(invocation.final) = {}

\* A slot that holds a client keeps that client.
C24_SlotKept ==
    /\ \A i \in 1..Len(airspeed) : airspeed[i] # None => airspeed'[i] = airspeed[i]
    /\ \A i \in 1..Len(servo) : servo[i] # None => servo'[i] = servo[i]

\* C24: over all invocations of allocate_services, for all nodes, a slot that
\* has been filled is not filled again, no port ID is returned for two
\* service instances, and an instance found when no slot of its service is
\* free gets no ID.
C24_SlotFilledOnce == []C24_IdsAndOverflow /\ [][C24_SlotKept]_vars

\* C24 witness: IDs have been returned for both nodes, every slot is
\* occupied, and the latest invocation found an airspeed and a servo instance
\* and returned nothing.
C24_Witness ==
    /\ \E a \in PortIds, b \in PortIds : issued[a] = <<1>> /\ issued[b] = <<2>>
    /\ \A i \in 1..Len(airspeed) : airspeed[i] # None
    /\ \A i \in 1..Len(servo) : servo[i] # None
    /\ invocation.raised = ""
    /\ FreeSlots(invocation.airspeed) = <<>>
    /\ FreeSlots(invocation.servo) = <<>>
    /\ Len(AirspeedCandidates) > 0
    /\ Len(ServoCandidates) > 0
    /\ AssignedCount(invocation.final) = 0

\* The slots that the latest invocation filled are occupied, whatever became
\* of its run; and when it belongs to a retry for a node whose previous run
\* failed, every ID it returned had never been returned before.
C25_FilledStaysRetryDiffers ==
    /\ \A j \in 1..Min(Len(AirspeedCandidates), Len(FreeSlots(invocation.airspeed))) :
          airspeed[FreeSlots(invocation.airspeed)[j] + 1] # None
    /\ \A j \in 1..Min(Len(ServoCandidates), Len(FreeSlots(invocation.servo))) :
          servo[FreeSlots(invocation.servo)[j] + 1] # None
    /\ invocation.previous.run # ""
       => /\ AssignedIds(invocation.final) \cap invocation.previous.ids = {}
          /\ \A id \in AssignedIds(invocation.final) :
                issued[id] = <<invocation.remote_node_id>>

\* No step frees a slot.
C25_NotReleased ==
    /\ \A i \in 1..Len(airspeed) : airspeed[i] # None => airspeed'[i] # None
    /\ \A i \in 1..Len(servo) : servo[i] # None => servo'[i] # None

\* C25: a slot that allocate_services filled is never freed, also not when the
\* run that filled it fails on a register-write timeout or is cancelled, and
\* the invocation of a later run for the same node gets IDs of other slots,
\* or none.
C25_SlotNeverReleased == []C25_FilledStaysRetryDiffers /\ [][C25_NotReleased]_vars

\* C25 witness: the invocation of a run for a node filled the first servo
\* slot and returned its IDs, the run then failed on a write timeout, and the
\* invocation of the retry for the node has filled the second servo slot and
\* returned the IDs of that one, the first slot still being occupied.
C25_Witness ==
    /\ invocation.previous.run = "NetworkTimeoutError"
    /\ ID_DYNAMICS_BASE \in invocation.previous.ids
    /\ invocation.raised = ""
    /\ invocation.servo[1] # None
    /\ invocation.servo[2] = None
    /\ ID_DYNAMICS_BASE + 1 \in AssignedIds(invocation.final)
    /\ servo[1] # None
    /\ servo[2] # None

====
